---- MODULE Spec2Model ----
(***************************************************************************)
(* Secufix: repository dependency scanner.                                 *)
(*                                                                         *)
(* The model follows one scan invocation through its await points.  Three  *)
(* entry points are modelled: a direct call of the exported scanDependency *)
(* (one oracle lookup with its retry policy), the POST /scan handler of    *)
(* src/index.js and processRepo of services/githubService.js.  External    *)
(* services (GitHub, VirusTotal, Gemini, OSS Index, package registries)    *)
(* are the environment: every reply is a nondeterministic choice.          *)
(***************************************************************************)
EXTENDS Integers, Sequences, FiniteSets, TLC

VARIABLES
    entry,              \* which exported operation was invoked
    repoUrl,            \* "missing" | "invalid" | "valid" (req.body.repoUrl)
    fetchFails,         \* TRUE when the GitHub contents request is rejected
    repoFiles,          \* manifests the repository holds (the fetcher's answer)
    pc,                 \* position of the single thread of control
    dependencyFiles,    \* fetched manifests
    fileIdx,            \* index of the manifest being processed
    depIdx,             \* index of the dependency being looked up
    vulnerabilities,    \* findings of the manifest being scanned
    secIdx,             \* index of the dependency being resolved
    secureVersions,     \* recommendations of the manifest being resolved
    malwareResult,      \* /scan handler: malware verdict of the manifest, until
                        \* the AI review has settled
    aiAnalysis,         \* AI review of the manifest being processed
    results,            \* /scan handler: per-file results
    repoVulnerabilities,\* processRepo: findings of all files, tagged by file
    secureUpdates,      \* processRepo: per-file upgrade plans
    call,               \* arguments of the running scanDependency
    retryCount,         \* retryCount argument of the running scanDependency
    requests,           \* oracle requests issued by the running lookup
    waitTime,           \* delay being awaited (ms), 0 when none
    replies,            \* oracle replies received by the running lookup
    calls,              \* external calls issued so far, per service
    outcome,            \* what the invocation gave its caller
    fileFindings,       \* log: what scanDependencies returned, per file
    scanErrors,         \* log: lookups that ended in a 'Scan Error' finding
    args,               \* arguments of a directly called resolver, rewriter
                        \* or updater function
    disk                \* the updater's working directory: the manifest file
                        \* and the file operations performed on it

vars == << entry, repoUrl, fetchFails, repoFiles, pc, dependencyFiles, fileIdx,
           depIdx, vulnerabilities, secIdx, secureVersions, malwareResult,
           aiAnalysis, results, repoVulnerabilities, secureUpdates, call, retryCount, requests,
           waitTime, replies, calls, outcome, fileFindings, scanErrors,
           args, disk >>

-----------------------------------------------------------------------------
(* Bounds of the explored input space. *)

MaxFiles == 2       \* manifests in one repository
MaxDeps  == 2       \* dependency entries in one repository, all files together
MaxVulns == 2       \* vulnerabilities in one oracle report
MaxPublished == 3   \* versions in one registry document

-----------------------------------------------------------------------------
(* Program constants. *)

MAX_RETRIES    == 3
RETRY_DELAY_MS == 2000
LOOP_DELAY_MS  == 500

HighThreshold   == 70      \* cvssScore >= 7, scores counted in tenths
MediumThreshold == 40      \* cvssScore >= 4

NoScore == -1              \* a vulnerability object without cvssScore

-----------------------------------------------------------------------------
(* Inputs. *)

PkgNames == << "lodash", "express", "flask", "axios" >>

\* Version strings are sequences of characters.
V_4_17_0  == << "4", ".", "1", "7", ".", "0" >>
V_4_17_21 == << "4", ".", "1", "7", ".", "2", "1" >>
V_latest  == << "l", "a", "t", "e", "s", "t" >>
V_NA      == << "N", "/", "A" >>

\* The value JavaScript calls undefined, where a version string is expected.
Undefined == << "undefined" >>

DeclaredVersion == V_4_17_0

\* How a manifest of each format writes the version of an entry:
\* "lodash": "^4.17.0", flask==4.17.0, <version>4.17.0</version>.
PrefixOf(fileName) ==
    CASE fileName = "package.json"     -> << "^" >>
      [] fileName = "requirements.txt" -> << "=", "=" >>
      [] OTHER                         -> << >>

Ecosystems == { "npm", "pypi", "maven" }

RecognizedFiles == { "package.json", "requirements.txt", "pom.xml" }

Deps(fileName, n) ==
    [ i \in 1..n |-> [ packageName |-> PkgNames[i],
                       prefix      |-> PrefixOf(fileName),
                       version     |-> DeclaredVersion ] ]

\* The keys of a package.json other than its two dependency sections.
OtherKeys(fileName) ==
    IF fileName = "package.json" THEN "name, version, scripts" ELSE ""

\* A manifest file: its name and its content.  deps are the entries of the
\* file in their order (for package.json those of "dependencies"), devDeps
\* the entries of "devDependencies".  malformed content is text its format's
\* parser rejects.
Manifest(fileName, malformed, deps, devDeps) ==
    [ name |-> fileName, malformed |-> malformed, deps |-> deps,
      devDeps |-> devDeps, other |-> OtherKeys(fileName) ]

NoContent == Manifest("", FALSE, << >>, << >>)

\* The manifests of a scanned repository: malformed content is drawn only
\* for the JSON format, the other two formats are extracted by regular
\* expressions from any text.
Manifests ==
    { Manifest(nm, FALSE, Deps(nm, n), << >>) :
          nm \in RecognizedFiles, n \in 0..MaxDeps }
    \cup { Manifest("package.json", TRUE, << >>, << >>) }

RECURSIVE SumLen(_, _)
SumLen(s, field) ==
    IF s = << >> THEN 0
    ELSE Len(Head(s)[field]) + SumLen(Tail(s), field)

\* The contents listing of a directory: distinct names in ascending order,
\* the order fetchDependencyFiles keeps.
NameRank(fileName) ==
    CASE fileName = "package.json"     -> 1
      [] fileName = "pom.xml"          -> 2
      [] OTHER                         -> 3

Repos ==
    { fs \in UNION { [ 1..k -> Manifests ] : k \in 0..MaxFiles } :
          /\ \A i, j \in DOMAIN fs :
                 i < j => NameRank(fs[i].name) < NameRank(fs[j].name)
          /\ SumLen(fs, "deps") <= MaxDeps }

Scores == { NoScore, 0, 39, 40, 69, 70, 100 }

ScoreLists == UNION { [ 1..k -> Scores ] : k \in 1..MaxVulns }

HttpErrorStatuses == { 401, 403, 404, 429, 500, 503 }

Reply(kind, status, shape, scores) ==
    [ kind |-> kind, status |-> status, shape |-> shape, scores |-> scores ]

\* Rejections of axios.post: an HTTP error status, or no response at all
\* (network failure, 15 s timeout).
OracleErrors ==
    { Reply("status", s, "none", << >>) : s \in HttpErrorStatuses }
    \cup { Reply("noResponse", 0, "none", << >>) }

\* Resolutions of axios.post by the shape of response.data: missing, an
\* object, an empty array, or an array whose first element is the report.
OracleResponses ==
    { Reply("ok", 200, sh, << >>) : sh \in { "missing", "object", "empty", "report" } }
    \cup { Reply("ok", 200, "report", sc) : sc \in ScoreLists }

\* Inside a repository scan the oracle answers from a smaller set.
ScanOracleErrors ==
    { r \in OracleErrors : r.kind = "status" /\ r.status = 429 }

ScanOracleResponses ==
    { r \in OracleResponses :
          \/ r.shape \in { "empty", "report" } /\ r.scores = << >>
          \/ r.scores = << HighThreshold >> }

ErrorsFor(e)    == IF e = "scanDependency" THEN OracleErrors ELSE ScanOracleErrors
ResponsesFor(e) == IF e = "scanDependency" THEN OracleResponses ELSE ScanOracleResponses

NoCall == [ packageName |-> "", version |-> << >>, ecosystem |-> "" ]

NoOutcome == [ kind |-> "none" ]

\* What scanForMalware resolves with: null when the request failed, else
\* last_analysis_stats.
MalwareVerdict(settled, malicious, suspicious) ==
    [ settled |-> settled, malicious |-> malicious, suspicious |-> suspicious ]

MalwareFailed == MalwareVerdict("null", 0, 0)

MalwareResults ==
    { MalwareFailed }
    \cup { MalwareVerdict("stats", m, s) : m \in 0..1, s \in 0..1 }

NoMalwareResult == MalwareVerdict("pending", 0, 0)

NoCalls == [ malware |-> 0, ai |-> 0, oracle |-> 0, registry |-> 0 ]

\* No function of secureDependencies or of the updater was called directly,
\* and no working directory is involved.
NoArgs == [ none |-> TRUE ]

NoDisk == [ exists |-> FALSE, file |-> NoContent, log |-> << >> ]

-----------------------------------------------------------------------------
(* scanDependency: one lookup with its retry policy. *)

\* JavaScript's x >= n for a cvssScore that may be undefined.
JsGE(x, n) == x # NoScore /\ x >= n

Severity(cvssScore) ==
    IF JsGE(cvssScore, HighThreshold) THEN "high"
    ELSE IF JsGE(cvssScore, MediumThreshold) THEN "medium"
    ELSE "low"

Finding(pkg, ver, sev, title, desc, score, err) ==
    [ package |-> pkg, version |-> ver, severity |-> sev, title |-> title,
      description |-> desc, cvssScore |-> score, error |-> err ]

UnexpectedFormat(c) ==
    Finding(c.packageName, c.version, "unknown", "Scan Error",
            "Unexpected response format from vulnerability database",
            NoScore, "none")

VulnerabilityFindings(c, scores) ==
    [ i \in 1..Len(scores) |->
        Finding(c.packageName, c.version, Severity(scores[i]), "Advisory",
                "advisory", scores[i], "none") ]

ScanFailed(c, message) ==
    Finding(c.packageName, c.version, "unknown", "Scan Error",
            "Vulnerability scan failed after multiple attempts. Manual review recommended.",
            NoScore, message)

\* An error raised while the request was set up: nothing was sent.
SetupError == Reply("setup", 0, "none", << >>)

\* error.message
ErrMessage(r) ==
    IF r.kind = "status"
    THEN "Request failed with status code " \o ToString(r.status)
    ELSE IF r.kind = "noResponse"
    THEN "timeout of 15000ms exceeded"
    ELSE "Invalid URL"

\* Mutant: the retry budget is compared with <= instead of <.
ShouldRetryOffByOne(r, rc) ==
    IF r.kind = "status"
    THEN \/ r.status = 429 /\ rc <= MAX_RETRIES
         \/ r.status >= 500 /\ rc <= MAX_RETRIES
    ELSE rc <= MAX_RETRIES

\* Mutant: every HTTP error status is retried, not only 429 and 5xx.
ShouldRetryAnyStatus(r, rc) == rc < MAX_RETRIES

\* Mutant: a request without response is retried whatever the retry count.
ShouldRetryNetworkUnbounded(r, rc) ==
    IF r.kind = "status"
    THEN \/ r.status = 429 /\ rc < MAX_RETRIES
         \/ r.status >= 500 /\ rc < MAX_RETRIES
    ELSE TRUE

ShouldRetry(r, rc) ==
    IF r.kind = "status"
    THEN \/ r.status = 429 /\ rc < MAX_RETRIES
         \/ r.status >= 500 /\ rc < MAX_RETRIES
    ELSE rc < MAX_RETRIES

\* Mutant: the length check of the response array is missing.
UnexpectedShapeNoLength(r) == r.shape \in { "missing", "object" }

\* !response.data || !Array.isArray(response.data) || response.data.length === 0
UnexpectedShape(r) == r.shape \in { "missing", "object", "empty" }

IsScanError(f) == f.title = "Scan Error" /\ f.severity = "unknown"

\* Mutant: the dependency loop awaits delay(0).
LookupReturnNoDelay(findings) ==
    /\ scanErrors' = scanErrors \cup
           { [ file |-> fileIdx, finding |-> findings[i] ] :
                 i \in { j \in DOMAIN findings : IsScanError(findings[j]) } }
    /\ IF entry = "scanDependency"
       THEN /\ outcome' = [ kind |-> "return", value |-> findings ]
            /\ pc' = "done"
            /\ UNCHANGED << vulnerabilities, waitTime >>
       ELSE /\ vulnerabilities' = vulnerabilities \o findings
            /\ waitTime' = 0
            /\ pc' = "delay500"
            /\ UNCHANGED outcome

\* The lookup hands its findings to its caller: the direct caller, or the
\* dependency loop of the manifest scan, which then awaits delay(500).
LookupReturn(findings) ==
    /\ scanErrors' = scanErrors \cup
           { [ file |-> fileIdx, finding |-> findings[i] ] :
                 i \in { j \in DOMAIN findings : IsScanError(findings[j]) } }
    /\ IF entry = "scanDependency"
       THEN /\ outcome' = [ kind |-> "return", value |-> findings ]
            /\ pc' = "done"
            /\ UNCHANGED << vulnerabilities, waitTime >>
       ELSE /\ vulnerabilities' = vulnerabilities \o findings
            /\ waitTime' = LOOP_DELAY_MS
            /\ pc' = "delay500"
            /\ UNCHANGED outcome

scanUnchanged ==
    UNCHANGED << args, disk, entry, repoUrl, fetchFails, repoFiles, dependencyFiles,
                 fileIdx, depIdx, secIdx, secureVersions, malwareResult, aiAnalysis, results,
                 repoVulnerabilities, secureUpdates, fileFindings >>

\* axios.post is issued.
ScanDependencySend ==
    /\ pc = "call"
    /\ requests' = requests + 1
    /\ calls' = [ calls EXCEPT !.oracle = @ + 1 ]
    /\ pc' = "oracle"
    /\ scanUnchanged
    /\ UNCHANGED << vulnerabilities, call, retryCount, waitTime, replies,
                    outcome, scanErrors >>

\* axios.post rejects before anything is sent: neither error.response nor
\* error.request is set.
ScanDependencySetupError ==
    /\ pc = "call"
    /\ replies' = Append(replies, SetupError)
    /\ LookupReturn(<< ScanFailed(call, ErrMessage(SetupError)) >>)
    /\ scanUnchanged
    /\ UNCHANGED << call, retryCount, requests, calls >>

\* The request resolves: the try block after the await.
OracleResponse ==
    /\ pc = "oracle"
    /\ \E r \in ResponsesFor(entry) :
        /\ replies' = Append(replies, r)
        /\ IF UnexpectedShape(r)
           THEN LookupReturn(<< UnexpectedFormat(call) >>)
           ELSE IF Len(r.scores) > 0
                THEN LookupReturn(VulnerabilityFindings(call, r.scores))
                ELSE LookupReturn(<< >>)
    /\ scanUnchanged
    /\ UNCHANGED << call, retryCount, requests, calls >>

\* The request rejects: the catch block, up to the back-off delay or the
\* synthetic finding.
OracleError ==
    /\ pc = "oracle"
    /\ \E r \in ErrorsFor(entry) :
        /\ replies' = Append(replies, r)
        /\ IF ShouldRetry(r, retryCount)
           THEN /\ waitTime' = RETRY_DELAY_MS * (retryCount + 1)
                /\ pc' = "backoff"
                /\ UNCHANGED << vulnerabilities, outcome, scanErrors >>
           ELSE LookupReturn(<< ScanFailed(call, ErrMessage(r)) >>)
    /\ scanUnchanged
    /\ UNCHANGED << call, retryCount, requests, calls >>

\* The back-off delay elapses: the recursive call with retryCount + 1.
BackoffElapsed ==
    /\ pc = "backoff"
    /\ retryCount' = retryCount + 1
    /\ waitTime' = 0
    /\ pc' = "call"
    /\ scanUnchanged
    /\ UNCHANGED << vulnerabilities, call, requests, replies, calls, outcome,
                    scanErrors >>

LookupNext ==
    \/ ScanDependencySend
    \/ ScanDependencySetupError
    \/ OracleResponse
    \/ OracleError
    \/ BackoffElapsed

-----------------------------------------------------------------------------
(* Strings: the character-level operations of the scanner and the resolver. *)

Digits == { "0", "1", "2", "3", "4", "5", "6", "7", "8", "9" }

\* UTF-16 code units of the characters version strings are made of.
CharCode(c) ==
    CASE c = "-" -> 45  [] c = "." -> 46  [] c = "/" -> 47
      [] c = "0" -> 48  [] c = "1" -> 49  [] c = "2" -> 50  [] c = "3" -> 51
      [] c = "4" -> 52  [] c = "5" -> 53  [] c = "6" -> 54  [] c = "7" -> 55
      [] c = "8" -> 56  [] c = "9" -> 57
      [] c = "<" -> 60  [] c = "=" -> 61  [] c = ">" -> 62
      [] c = "N" -> 78  [] c = "A" -> 65  [] c = "^" -> 94
      [] c = "a" -> 97  [] c = "b" -> 98  [] c = "e" -> 101 [] c = "l" -> 108
      [] c = "s" -> 115 [] c = "t" -> 116 [] c = "~" -> 126
      [] OTHER   -> 127

\* JavaScript's a > b on strings: code unit by code unit, a proper prefix is
\* the smaller string.
RECURSIVE StrGreater(_, _)
StrGreater(a, b) ==
    IF a = << >> THEN FALSE
    ELSE IF b = << >> THEN TRUE
    ELSE IF Head(a) = Head(b) THEN StrGreater(Tail(a), Tail(b))
    ELSE CharCode(Head(a)) > CharCode(Head(b))

IsRangeChar(c) == c \in { "^", "~" }
IsVersionChar(c) == c \in Digits \cup { "." }
NotRangeChar(c) == ~ IsRangeChar(c)

\* versionRange.replace(/[\^~]/g, '')
StripRange(versionRange) == SelectSeq(versionRange, NotRangeChar)

\* version.replace(/[^0-9.]/g, '')
KeepNumeric(version) == SelectSeq(version, IsVersionChar)

\* v.match(/^\d+\.\d+\.\d+$/)
StrictVersion(v) ==
    /\ Len(v) >= 5
    /\ \A i \in DOMAIN v : IsVersionChar(v[i])
    /\ Cardinality({ i \in DOMAIN v : v[i] = "." }) = 2
    /\ v[1] # "." /\ v[Len(v)] # "."
    /\ \A i \in 1..(Len(v) - 1) : ~ (v[i] = "." /\ v[i + 1] = ".")

\* Array.prototype.sort() of distinct strings: ascending by code units.
RECURSIVE SortStrings(_)
SortStrings(list) ==
    IF list = << >> THEN << >>
    ELSE LET least == CHOOSE i \in DOMAIN list :
                          \A j \in DOMAIN list : ~ StrGreater(list[i], list[j])
             rest  == [ k \in 1..(Len(list) - 1) |->
                          IF k < least THEN list[k] ELSE list[k + 1] ]
         IN  << list[least] >> \o SortStrings(rest)

-----------------------------------------------------------------------------
(* secureDependencies: the resolver and the rewriter. *)

\* What the registry answers: a rejection (timeout, network error, 404) or
\* the published versions in the order of the registry document.
RegistryFailure == [ ok |-> FALSE, versions |-> << >> ]

RegistryReplies ==
    { RegistryFailure,
      [ ok |-> TRUE, versions |-> << V_4_17_0 >> ],
      [ ok |-> TRUE, versions |-> << V_4_17_0, V_4_17_21 >> ] }

UpdateCommand(tool, packageName, sep, version) ==
    [ tool |-> tool, packageName |-> packageName, sep |-> sep, version |-> version ]

\* newerVersions[0] || versions[versions.length - 1], and
\* stableReleases[stableReleases.length - 1]
fetchSecureVersion(packageName, currentVersion, ecosystem, reply) ==
    IF ecosystem \in { "npm", "pypi" } /\ ~ reply.ok
    THEN [ secureVersion |-> V_latest,
           updateCommand |->
               IF ecosystem = "npm"
               THEN UpdateCommand("npm install", packageName, "@", V_latest)
               ELSE UpdateCommand("pip install --upgrade", packageName, "", << >>) ]
    ELSE IF ecosystem = "npm"
    THEN LET versions == reply.versions
             isNewer(v) == StrGreater(v, currentVersion)
             newerVersions ==
                 SortStrings(SelectSeq(SelectSeq(versions, StrictVersion), isNewer))
             secureVersion ==
                 IF newerVersions # << >> THEN newerVersions[1]
                 ELSE IF versions # << >> THEN versions[Len(versions)]
                 ELSE Undefined
         IN  [ secureVersion |-> secureVersion,
               updateCommand |->
                   UpdateCommand("npm install", packageName, "@", secureVersion) ]
    ELSE IF ecosystem = "pypi"
    THEN LET stableReleases == SortStrings(SelectSeq(reply.versions, StrictVersion))
             secureVersion ==
                 IF stableReleases # << >>
                 THEN stableReleases[Len(stableReleases)]
                 ELSE Undefined
         IN  [ secureVersion |-> secureVersion,
               updateCommand |->
                   UpdateCommand("pip install", packageName, "==", secureVersion) ]
    ELSE [ secureVersion |-> Undefined,
           updateCommand |-> UpdateCommand("undefined", packageName, "", Undefined) ]

\* The dependencies fetchSecureDependencies extracts from a well-formed
\* manifest, and the ecosystem it resolves them in.
SecureEcosystem(file) ==
    IF file.name = "requirements.txt" THEN "pypi" ELSE "npm"

\* The declared expression of an entry as written in the manifest.
Expr(d) == d.prefix \o d.version

\* { ...packageJson.dependencies, ...packageJson.devDependencies }: the keys
\* of the first section in their order, then the new keys of the second; a
\* key of both sections takes the value of the second.
AllDeps(file) ==
    IF file.name # "package.json" THEN file.deps
    ELSE LET devIdx(d) == { j \in DOMAIN file.devDeps :
                               file.devDeps[j].packageName = d.packageName }
             isNew(d)  == \A j \in DOMAIN file.deps :
                              file.deps[j].packageName # d.packageName
         IN  [ i \in DOMAIN file.deps |->
                 IF devIdx(file.deps[i]) # { }
                 THEN file.devDeps[CHOOSE j \in devIdx(file.deps[i]) : TRUE]
                 ELSE file.deps[i] ]
             \o SelectSeq(file.devDeps, isNew)

\* line.startsWith("#"), on the leading token of a line
StartsWithHash(token) == token \in { "#", "# flask", "# Flask" }

SecureDeps(file) ==
    IF file.name = "package.json"
    THEN [ i \in DOMAIN AllDeps(file) |->
             [ packageName |-> AllDeps(file)[i].packageName,
               version     |-> KeepNumeric(Expr(AllDeps(file)[i])) ] ]
    ELSE IF file.name = "requirements.txt"
    THEN LET pinned(d) == /\ d.packageName # ""
                          /\ ~ StartsWithHash(d.packageName)
                          /\ d.prefix = << "=", "=" >>
             lines == SelectSeq(file.deps, pinned)
         IN  [ i \in DOMAIN lines |->
                 [ packageName |-> lines[i].packageName,
                   version     |-> lines[i].version ] ]
    ELSE << >>

\* Mutant: the placeholder of a failed lookup counts as secure.
RecommendationPlaceholderSecure(dep, resolved) ==
    [ packageName    |-> dep.packageName,
      currentVersion |-> dep.version,
      secureVersion  |-> resolved.secureVersion,
      updateCommand  |-> resolved.updateCommand,
      isSecure       |-> resolved.secureVersion \in { dep.version, V_latest } ]

Recommendation(dep, resolved) ==
    [ packageName    |-> dep.packageName,
      currentVersion |-> dep.version,
      secureVersion  |-> resolved.secureVersion,
      updateCommand  |-> resolved.updateCommand,
      isSecure       |-> resolved.secureVersion = dep.version ]

\* `${secureVersion}` in a template literal.
VersionText(v) ==
    IF v = Undefined
    THEN << "u", "n", "d", "e", "f", "i", "n", "e", "d" >>
    ELSE v


\* Whether a recommendation names the entry, and the one that decides its
\* text: forEach / reduce over the recommendations, the last of a name wins.
Named(d, recs) == \E i \in DOMAIN recs : recs[i].packageName = d.packageName

RecOf(d, recs) ==
    recs[CHOOSE i \in DOMAIN recs :
             /\ recs[i].packageName = d.packageName
             /\ \A j \in DOMAIN recs : recs[j].packageName = d.packageName => j <= i]

\* Mutant: the range prefix of the declared expression is kept.
SecureEntryKeepPrefix(d, secureVersion) ==
    [ d EXCEPT !.version = VersionText(secureVersion) ]

\* packageJson.dependencies[packageName] = `^${secureVersion}`
SecureEntry(d, secureVersion) ==
    [ d EXCEPT !.prefix = << "^" >>, !.version = VersionText(secureVersion) ]

\* One section of package.json after the forEach over the recommendations:
\* an entry is assigned when its value is truthy.
RewriteSection(entries, recs) ==
    [ i \in DOMAIN entries |->
        IF Named(entries[i], recs) /\ Expr(entries[i]) # << >>
        THEN SecureEntry(entries[i], RecOf(entries[i], recs).secureVersion)
        ELSE entries[i] ]

\* Mutant: blank lines and comment lines are dropped, as the resolver's
\* parser drops them.
RewriteRequirementsFiltered(lines, recs) ==
    LET kept(d) == d.packageName # "" /\ ~ StartsWithHash(d.packageName)
        entries == SelectSeq(lines, kept)
    IN  [ i \in DOMAIN entries |->
            IF /\ entries[i].prefix = << "=", "=" >>
               /\ Named(entries[i], recs)
               /\ RecOf(entries[i], recs).secureVersion \notin { << >>, Undefined }
            THEN [ entries[i] EXCEPT
                     !.version = VersionText(RecOf(entries[i], recs).secureVersion) ]
            ELSE entries[i] ]

\* content.split("\n").map(...).join("\n"): a line is replaced when
\* split("==") gives two parts and secureMap holds a truthy version for the
\* first.
RewriteRequirements(lines, recs) ==
    [ i \in DOMAIN lines |->
        IF /\ lines[i].prefix = << "=", "=" >>
           /\ Named(lines[i], recs)
           /\ RecOf(lines[i], recs).secureVersion \notin { << >>, Undefined }
        THEN [ lines[i] EXCEPT
                 !.version = VersionText(RecOf(lines[i], recs).secureVersion) ]
        ELSE lines[i] ]

\* The rewritten manifest.  Called only on content JSON.parse accepts.
generateSecureFile(file, recs) ==
    IF file.name = "package.json"
    THEN [ file EXCEPT !.deps    = RewriteSection(file.deps, recs),
                       !.devDeps = RewriteSection(file.devDeps, recs) ]
    ELSE IF file.name = "requirements.txt"
    THEN [ file EXCEPT !.deps = RewriteRequirements(file.deps, recs) ]
    ELSE file

-----------------------------------------------------------------------------
\* A direct call scanDependency(packageName, version, ecosystem).
InitLookup ==
    /\ entry = "scanDependency"
    /\ repoUrl = "missing"
    /\ fetchFails = FALSE
    /\ repoFiles = << >>
    /\ pc = "call"
    /\ dependencyFiles = << >>
    /\ fileIdx = 0
    /\ depIdx = 0
    /\ vulnerabilities = << >>
    /\ secIdx = 0
    /\ secureVersions = << >>
    /\ malwareResult = NoMalwareResult
    /\ aiAnalysis = "none"
    /\ results = << >>
    /\ repoVulnerabilities = << >>
    /\ secureUpdates = << >>
    /\ \E i \in 1..2, eco \in Ecosystems :
           call = [ packageName |-> PkgNames[i], version |-> DeclaredVersion,
                    ecosystem |-> eco ]
    /\ retryCount = 0
    /\ requests = 0
    /\ waitTime = 0
    /\ replies = << >>
    /\ calls = NoCalls
    /\ outcome = NoOutcome
    /\ fileFindings = << >>
    /\ scanErrors = { }
    /\ args = NoArgs
    /\ disk = NoDisk

SpecLookup == InitLookup /\ [][LookupNext]_vars

-----------------------------------------------------------------------------
(* scanDependencies: the per-manifest scan. *)

EcosystemOf(fileName) ==
    CASE fileName = "package.json"     -> "npm"
      [] fileName = "requirements.txt" -> "pypi"
      [] OTHER                         -> "maven"

ParseError(fileName, message) ==
    Finding(fileName, V_NA, "unknown", "Parse Error",
            "Failed to parse " \o fileName \o ": " \o message, NoScore, "none")

JsonSyntaxError == "Unexpected token in JSON"

\* fileName.endsWith('.gradle') || fileName === "build.gradle"
IsGradle(fileName) == fileName \in { "build.gradle", "settings.gradle" }

\* fileName === "Gemfile" || fileName === "Gemfile.lock"
IsGemfile(fileName) == fileName \in { "Gemfile", "Gemfile.lock" }

UnsupportedFormat(fileName, description) ==
    Finding(fileName, V_NA, "unknown", "Unsupported Format", description,
            NoScore, "none")

\* The version scanPackageJson / scanRequirementsTxt / scanPomXml pass to
\* the lookup.
LookupVersion(file, dep) ==
    IF file.name = "package.json"
    THEN StripRange(dep.prefix \o dep.version)
    ELSE dep.version

\* The operators of /^([a-zA-Z0-9_.-]+)(?:==|>=|<=|~=|!=|>|<)([a-zA-Z0-9_.-]+)/
ScanOperators ==
    { << "=", "=" >>, << ">", "=" >>, << "<", "=" >>, << "~", "=" >>,
      << "!", "=" >>, << ">" >>, << "<" >> }

\* [a-zA-Z0-9_.-]+ on the leading token of a line
IsNameToken(token) == token # "" /\ ~ StartsWithHash(token)

\* The dependencies scanRequirementsTxt extracts: blank and comment lines
\* are dropped, a name with an operator and a version gives that version, a
\* bare name gives "latest", any other line gives null and is dropped.
ParsedRequirements(lines) ==
    LET kept(line) == /\ ~ (line.packageName = "" /\ Expr(line) = << >>)
                      /\ ~ StartsWithHash(line.packageName)
        equalMatch(line) == /\ IsNameToken(line.packageName)
                            /\ line.prefix \in ScanOperators
                            /\ line.version # << >>
        bareName(line) == IsNameToken(line.packageName) /\ Expr(line) = << >>
        matched(line) == equalMatch(line) \/ bareName(line)
        dep(line) == IF equalMatch(line) THEN line
                     ELSE [ line EXCEPT !.version = V_latest ]
        found == SelectSeq(SelectSeq(lines, kept), matched)
    IN  [ i \in DOMAIN found |-> dep(found[i]) ]

\* The dependencies a manifest scanner extracts from the content.
ParsedDeps(file) ==
    IF file.name = "package.json" THEN AllDeps(file)
    ELSE IF file.name = "requirements.txt" THEN ParsedRequirements(file.deps)
    ELSE file.deps

\* if (version === "latest") continue: the dependencies whose lookup the
\* loop of the scanner issues.
ScanDeps(file) ==
    IF file.name = "requirements.txt"
    THEN SelectSeq(ParsedDeps(file), LAMBDA d : d.version # V_latest)
    ELSE ParsedDeps(file)

\* A package.json value that is not a string (an object, a number), and the
\* message of the TypeError versionRange.replace(...) raises on it.
NotAString == << "(not a string)" >>

TypeErrorMessage == "versionRange.replace is not a function"

CurrentFile == dependencyFiles[fileIdx]

\* scanDependencies resolves with the findings of the manifest.
ScanReturn(findings) ==
    /\ vulnerabilities' = findings
    /\ fileFindings' = Append(fileFindings,
                              [ fileName |-> CurrentFile.name, findings |-> findings ])
    /\ pc' = "scanned"
    /\ call' = NoCall
    /\ retryCount' = 0
    /\ requests' = 0
    /\ UNCHANGED calls

\* Head of the dependency loop: the next lookup starts, or the loop ends.
ScanLoop(i, findings) ==
    IF i <= Len(ScanDeps(CurrentFile))
    THEN IF ScanDeps(CurrentFile)[i].version = NotAString
         THEN \* the catch block of the scanner returns its own list
              ScanReturn(<< ParseError(CurrentFile.name, TypeErrorMessage) >>)
         ELSE
         /\ call' = [ packageName |-> ScanDeps(CurrentFile)[i].packageName,
                      version     |-> LookupVersion(CurrentFile, ScanDeps(CurrentFile)[i]),
                      ecosystem   |-> EcosystemOf(CurrentFile.name) ]
         /\ retryCount' = 0
         /\ requests' = 0
         /\ pc' = "call"
         /\ vulnerabilities' = findings
         /\ UNCHANGED << calls, fileFindings >>
    ELSE ScanReturn(findings)

\* scanDependencies(file.name, file.content) is called.
ScanDependencies ==
    /\ pc = "scan"
    /\ depIdx' = 1
    /\ replies' = << >>
    /\ IF CurrentFile.name = "package.json" /\ CurrentFile.malformed
       THEN ScanReturn(<< ParseError(CurrentFile.name, JsonSyntaxError) >>)
       ELSE IF CurrentFile.name \in RecognizedFiles
       THEN ScanLoop(1, << >>)
       ELSE IF IsGradle(CurrentFile.name)
       THEN ScanReturn(<< UnsupportedFormat(CurrentFile.name,
                              "Gradle scanning is not yet implemented.") >>)
       ELSE IF IsGemfile(CurrentFile.name)
       THEN ScanReturn(<< UnsupportedFormat(CurrentFile.name,
                              "Ruby Gemfile scanning is not yet implemented.") >>)
       ELSE ScanReturn(<< >>)
    /\ UNCHANGED << args, disk, entry, repoUrl, fetchFails, repoFiles, dependencyFiles,
                    fileIdx, secIdx, secureVersions, malwareResult, aiAnalysis, results,
                    repoVulnerabilities, secureUpdates, waitTime, outcome,
                    scanErrors >>

\* await delay(500) after a lookup.
LoopDelayElapsed ==
    /\ pc = "delay500"
    /\ depIdx' = depIdx + 1
    /\ replies' = << >>
    /\ waitTime' = 0
    /\ ScanLoop(depIdx + 1, vulnerabilities)
    /\ UNCHANGED << args, disk, entry, repoUrl, fetchFails, repoFiles, dependencyFiles,
                    fileIdx, secIdx, secureVersions, malwareResult, aiAnalysis, results,
                    repoVulnerabilities, secureUpdates, outcome,
                    scanErrors >>

-----------------------------------------------------------------------------
(* fetchSecureDependencies: one registry lookup per dependency. *)

\* Head of the resolver loop: the next registry request, or the loop ends.
ResolveLoop(i) ==
    IF i <= Len(SecureDeps(CurrentFile))
    THEN /\ calls' = [ calls EXCEPT !.registry = @ + 1 ]
         /\ pc' = "registry"
    ELSE /\ pc' = "resolved"
         /\ UNCHANGED calls

RegistryReply ==
    /\ pc = "registry"
    /\ \E reply \in RegistryReplies :
        LET dep == SecureDeps(CurrentFile)[secIdx]
            resolved == fetchSecureVersion(dep.packageName, dep.version,
                                           SecureEcosystem(CurrentFile), reply)
        IN  secureVersions' = Append(secureVersions, Recommendation(dep, resolved))
    /\ pc' = "delay1000"
    /\ UNCHANGED << args, disk, entry, repoUrl, fetchFails, repoFiles, dependencyFiles,
                    fileIdx, depIdx, vulnerabilities, secIdx, malwareResult, aiAnalysis,
                    results, repoVulnerabilities, secureUpdates, call,
                    retryCount, requests, waitTime, replies, calls, outcome,
                    fileFindings, scanErrors >>

\* await delay(1000) after a registry lookup.
ResolveDelayElapsed ==
    /\ pc = "delay1000"
    /\ secIdx' = secIdx + 1
    /\ ResolveLoop(secIdx + 1)
    /\ UNCHANGED << args, disk, entry, repoUrl, fetchFails, repoFiles, dependencyFiles,
                    fileIdx, depIdx, vulnerabilities, secureVersions,
                    malwareResult, aiAnalysis, results, repoVulnerabilities, secureUpdates,
                    call, retryCount, requests, waitTime, replies, outcome,
                    fileFindings, scanErrors >>

-----------------------------------------------------------------------------
(* POST /scan (src/index.js). *)

Http(status, body) == [ kind |-> "http", status |-> status, body |-> body ]

\* Whatever scanWithGemini resolves with, a report or an error object: the
\* handler only stores it.
AiReport == "aiAnalysis"

FileResult(file, ai, vulns, recs, content) ==
    [ fileName        |-> file.name,
      aiAnalysis      |-> ai,
      vulnerabilities |-> vulns,
      secureVersions  |-> recs,
      updatedContent  |-> content,
      summary |->
          [ totalVulnerabilities |-> Len(vulns),
            totalDependencies    |-> Len(recs),
            needsUpdate          |-> Len(SelectSeq(recs, LAMBDA r : ~ r.isSecure)) ] ]

\* Mutant: findings are counted once per package over all files.
ScanSummaryDeduplicated(files, res) ==
    [ totalFiles           |-> Len(files),
      totalVulnerabilities |->
          Cardinality(UNION { { res[i].vulnerabilities[k].package :
                                    k \in DOMAIN res[i].vulnerabilities } :
                                  i \in DOMAIN res }),
      status               |-> IF \E i \in DOMAIN res : Len(res[i].vulnerabilities) > 0
                               THEN "vulnerable" ELSE "secure" ]

ScanSummary(files, res) ==
    [ totalFiles           |-> Len(files),
      totalVulnerabilities |-> SumLen(res, "vulnerabilities"),
      status               |-> IF \E i \in DOMAIN res : Len(res[i].vulnerabilities) > 0
                               THEN "vulnerable" ELSE "secure" ]

ScanComplete(files, res) ==
    Http(200, [ status  |-> "success",
                message |-> "Repository scanning complete, including AI-based malware detection",
                results |-> res,
                summary |-> ScanSummary(files, res) ])

ServerError(details) ==
    Http(500, [ error |-> "Failed to scan and fix repository", details |-> details ])

\* Mutant: without the early return the empty loop ends in the 200 report.
NoFilesAsComplete(url) == ScanComplete(<< >>, << >>)

\* dependencyFiles.length === 0
NoFilesResponse(url) ==
    Http(404, [ status  |-> "warning",
                message |-> "No dependency files found in the repository",
                repoUrl |-> url ])

\* The request arrives.
HandlerStart ==
    /\ entry = "handler"
    /\ pc = "start"
    /\ IF repoUrl = "missing"
       THEN /\ outcome' = Http(400, [ error |-> "GitHub URL is required" ])
            /\ pc' = "done"
       ELSE IF repoUrl = "invalid"
       THEN /\ outcome' = ServerError("Invalid GitHub URL")
            /\ pc' = "done"
       ELSE /\ pc' = "fetch"
            /\ UNCHANGED outcome
    /\ UNCHANGED << args, disk, entry, repoUrl, fetchFails, repoFiles, dependencyFiles,
                    fileIdx, depIdx, vulnerabilities, secIdx, secureVersions,
                    malwareResult, aiAnalysis, results, repoVulnerabilities, secureUpdates,
                    call, retryCount, requests, waitTime, replies, calls,
                    fileFindings, scanErrors >>

\* fetchDependencyFiles settles.
HandlerFetched ==
    /\ entry = "handler"
    /\ pc = "fetch"
    /\ IF fetchFails
       THEN /\ outcome' = ServerError("Failed to fetch repository contents")
            /\ pc' = "done"
            /\ UNCHANGED << dependencyFiles, fileIdx, calls >>
       ELSE IF Len(repoFiles) = 0
       THEN /\ outcome' = NoFilesResponse(repoUrl)
            /\ pc' = "done"
            /\ dependencyFiles' = repoFiles
            /\ UNCHANGED << fileIdx, calls >>
       ELSE /\ dependencyFiles' = repoFiles
            /\ fileIdx' = 1
            /\ calls' = [ calls EXCEPT !.malware = @ + 1 ]
            /\ pc' = "malware"
            /\ UNCHANGED outcome
    /\ UNCHANGED << args, disk, entry, repoUrl, fetchFails, repoFiles, depIdx,
                    vulnerabilities, secIdx, secureVersions, malwareResult, aiAnalysis,
                    results, repoVulnerabilities, secureUpdates, call,
                    retryCount, requests, waitTime, replies, fileFindings,
                    scanErrors >>

\* malwareResult && malwareResult.data.attributes.last_analysis_stats.malicious > 0
\* Mutant: a malware scan that failed blocks the request as well.
MalwareBlocksOnFailure(verdict) ==
    \/ verdict.settled = "null"
    \/ verdict.settled = "stats" /\ verdict.malicious > 0

MalwareBlocks(verdict) == verdict.settled = "stats" /\ verdict.malicious > 0

\* scanForMalware settles.
MalwareReply ==
    /\ pc = "malware"
    /\ \E verdict \in MalwareResults :
        /\ malwareResult' = verdict
        /\ IF MalwareBlocks(verdict)
           THEN /\ outcome' = Http(403, [ error   |-> "Malware detected in dependencies!",
                                          details |-> verdict ])
                /\ pc' = "done"
                /\ UNCHANGED calls
           ELSE /\ calls' = [ calls EXCEPT !.ai = @ + 1 ]
                /\ pc' = "ai"
                /\ UNCHANGED outcome
    /\ UNCHANGED << args, disk, entry, repoUrl, fetchFails, repoFiles, dependencyFiles,
                    fileIdx, depIdx, vulnerabilities, secIdx, secureVersions,
                    aiAnalysis, results, repoVulnerabilities, secureUpdates,
                    call, retryCount, requests, waitTime, replies,
                    fileFindings, scanErrors >>

\* scanWithGemini settles.
AiReply ==
    /\ pc = "ai"
    /\ aiAnalysis' = AiReport
    /\ malwareResult' = NoMalwareResult
    /\ pc' = "scan"
    /\ UNCHANGED << args, disk, entry, repoUrl, fetchFails, repoFiles, dependencyFiles,
                    fileIdx, depIdx, vulnerabilities, secIdx, secureVersions,
                    results, repoVulnerabilities, secureUpdates, call,
                    retryCount, requests, waitTime, replies, calls, outcome,
                    fileFindings, scanErrors >>

\* results.push(...), then the next file or the response.
HandlerPush(result) ==
    /\ results' = Append(results, result)
    /\ IF fileIdx < Len(dependencyFiles)
       THEN /\ fileIdx' = fileIdx + 1
            /\ calls' = [ calls EXCEPT !.malware = @ + 1 ]
            /\ pc' = "malware"
            /\ UNCHANGED outcome
       ELSE /\ outcome' = ScanComplete(dependencyFiles, Append(results, result))
            /\ pc' = "done"
            /\ UNCHANGED << fileIdx, calls >>

\* scanDependencies has resolved: step 4 of the handler.
HandlerScanned ==
    /\ entry = "handler"
    /\ pc = "scanned"
    /\ IF Len(vulnerabilities) > 0
       THEN IF CurrentFile.name = "package.json" /\ CurrentFile.malformed
            THEN \* JSON.parse throws in fetchSecureDependencies
                 /\ outcome' = ServerError(JsonSyntaxError)
                 /\ pc' = "done"
                 /\ UNCHANGED << secIdx, secureVersions, results, fileIdx, calls >>
            ELSE /\ secIdx' = 1
                 /\ secureVersions' = << >>
                 /\ ResolveLoop(1)
                 /\ UNCHANGED << results, fileIdx, outcome >>
       ELSE /\ HandlerPush(FileResult(CurrentFile, aiAnalysis, vulnerabilities,
                                      << >>, NoContent))
            /\ UNCHANGED << secIdx, secureVersions >>
    /\ UNCHANGED << args, disk, entry, repoUrl, fetchFails, repoFiles, dependencyFiles,
                    depIdx, vulnerabilities, malwareResult, aiAnalysis, repoVulnerabilities,
                    secureUpdates, call, retryCount, requests, waitTime,
                    replies, fileFindings, scanErrors >>

\* fetchSecureDependencies has resolved: generateSecureFile and step 5.
HandlerResolved ==
    /\ entry = "handler"
    /\ pc = "resolved"
    /\ HandlerPush(FileResult(CurrentFile, aiAnalysis, vulnerabilities,
                              secureVersions,
                              generateSecureFile(CurrentFile, secureVersions)))
    /\ UNCHANGED << args, disk, entry, repoUrl, fetchFails, repoFiles, dependencyFiles,
                    depIdx, vulnerabilities, secIdx, secureVersions,
                    malwareResult, aiAnalysis, repoVulnerabilities, secureUpdates, call,
                    retryCount, requests, waitTime, replies, fileFindings,
                    scanErrors >>

-----------------------------------------------------------------------------
(* processRepo (src/services/githubService.js). *)

Returned(value) == [ kind |-> "return", value |-> value ]
Thrown(message) == [ kind |-> "throw", error |-> message ]

\* The identifier suggestFix is not bound in the module: its require line
\* is commented out.
suggestFixDefined == FALSE

RepoReport(vulns, fixes, updates) ==
    [ repoUrl         |-> repoUrl,
      status          |-> IF Len(vulns) > 0 THEN "vulnerable" ELSE "secure",
      message         |-> IF Len(vulns) > 0 THEN "Found vulnerabilities"
                          ELSE "No vulnerabilities found",
      vulnerabilities |-> vulns,
      fixes           |-> fixes,
      secureUpdates   |-> updates ]

\* dependencyFiles.length === 0
NoFilesReport(url) ==
    [ repoUrl |-> url, status |-> "unknown",
      message |-> "No dependency files found." ]

ProcessRepoStart ==
    /\ entry = "processRepo"
    /\ pc = "start"
    /\ IF repoUrl = "missing"
       THEN /\ outcome' = Thrown("Cannot read properties of undefined (reading 'match')")
            /\ pc' = "done"
       ELSE IF repoUrl = "invalid"
       THEN /\ outcome' = Thrown("Invalid GitHub URL")
            /\ pc' = "done"
       ELSE /\ pc' = "fetch"
            /\ UNCHANGED outcome
    /\ UNCHANGED << args, disk, entry, repoUrl, fetchFails, repoFiles, dependencyFiles,
                    fileIdx, depIdx, vulnerabilities, secIdx, secureVersions,
                    malwareResult, aiAnalysis, results, repoVulnerabilities, secureUpdates,
                    call, retryCount, requests, waitTime, replies, calls,
                    fileFindings, scanErrors >>

ProcessRepoFetched ==
    /\ entry = "processRepo"
    /\ pc = "fetch"
    /\ IF fetchFails
       THEN /\ outcome' = Thrown("Failed to fetch repository contents")
            /\ pc' = "done"
            /\ UNCHANGED << dependencyFiles, fileIdx >>
       ELSE IF Len(repoFiles) = 0
       THEN /\ outcome' = Returned(NoFilesReport(repoUrl))
            /\ pc' = "done"
            /\ dependencyFiles' = repoFiles
            /\ UNCHANGED fileIdx
       ELSE /\ dependencyFiles' = repoFiles
            /\ fileIdx' = 1
            /\ pc' = "scan"
            /\ UNCHANGED outcome
    /\ UNCHANGED << args, disk, entry, repoUrl, fetchFails, repoFiles, depIdx,
                    vulnerabilities, secIdx, secureVersions, malwareResult, aiAnalysis,
                    results, repoVulnerabilities, secureUpdates, call,
                    retryCount, requests, waitTime, replies, calls,
                    fileFindings, scanErrors >>

\* The fixes loop and the return statement.
ProcessRepoFinish(vulns, updates) ==
    IF Len(vulns) > 0 /\ ~ suggestFixDefined
    THEN Thrown("suggestFix is not defined")
    ELSE Returned(RepoReport(vulns,
                             [ i \in DOMAIN vulns |->
                                 [ vulnerability |-> vulns[i], suggestion |-> "fix" ] ],
                             updates))

\* End of one iteration of the file loop.
ProcessRepoNext(vulns, updates) ==
    IF fileIdx < Len(dependencyFiles)
    THEN /\ fileIdx' = fileIdx + 1
         /\ pc' = "scan"
         /\ UNCHANGED outcome
    ELSE /\ outcome' = ProcessRepoFinish(vulns, updates)
         /\ pc' = "done"
         /\ UNCHANGED fileIdx

TagFile(findings, fileName) ==
    [ i \in DOMAIN findings |-> [ finding |-> findings[i], file |-> fileName ] ]

\* scanDependencies has resolved: the findings are recorded and
\* fetchSecureDependencies is called.
ProcessRepoScanned ==
    /\ entry = "processRepo"
    /\ pc = "scanned"
    /\ repoVulnerabilities' =
           repoVulnerabilities \o TagFile(vulnerabilities, CurrentFile.name)
    /\ IF CurrentFile.name = "package.json" /\ CurrentFile.malformed
       THEN \* JSON.parse throws, the catch of the iteration logs it
            /\ ProcessRepoNext(repoVulnerabilities', secureUpdates)
            /\ UNCHANGED << secIdx, secureVersions, calls >>
       ELSE /\ secIdx' = 1
            /\ secureVersions' = << >>
            /\ ResolveLoop(1)
            /\ UNCHANGED << fileIdx, outcome >>
    /\ UNCHANGED << args, disk, entry, repoUrl, fetchFails, repoFiles, dependencyFiles,
                    depIdx, vulnerabilities, malwareResult, aiAnalysis, results,
                    secureUpdates, call, retryCount, requests, waitTime,
                    replies, fileFindings, scanErrors >>

\* fetchSecureDependencies has resolved: generateSecureFile, secureUpdates.push.
ProcessRepoResolved ==
    /\ entry = "processRepo"
    /\ pc = "resolved"
    /\ secureUpdates' =
           Append(secureUpdates,
                  [ file           |-> CurrentFile.name,
                    updates        |-> secureVersions,
                    updatedContent |-> generateSecureFile(CurrentFile, secureVersions) ])
    /\ ProcessRepoNext(repoVulnerabilities, secureUpdates')
    /\ UNCHANGED << args, disk, entry, repoUrl, fetchFails, repoFiles, dependencyFiles,
                    depIdx, vulnerabilities, secIdx, secureVersions,
                    malwareResult, aiAnalysis, results, repoVulnerabilities, call,
                    retryCount, requests, waitTime, replies, calls,
                    fileFindings, scanErrors >>

-----------------------------------------------------------------------------
(* A repository scan through either entry point. *)

Init ==
    /\ entry \in { "handler", "processRepo" }
    /\ repoUrl \in { "missing", "invalid", "valid" }
    /\ fetchFails \in BOOLEAN
    /\ repoFiles \in Repos
    /\ repoUrl # "valid" => ~ fetchFails /\ repoFiles = << >>
    /\ fetchFails => repoFiles = << >>
    /\ pc = "start"
    /\ dependencyFiles = << >>
    /\ fileIdx = 0
    /\ depIdx = 0
    /\ vulnerabilities = << >>
    /\ secIdx = 0
    /\ secureVersions = << >>
    /\ malwareResult = NoMalwareResult
    /\ aiAnalysis = "none"
    /\ results = << >>
    /\ repoVulnerabilities = << >>
    /\ secureUpdates = << >>
    /\ call = NoCall
    /\ retryCount = 0
    /\ requests = 0
    /\ waitTime = 0
    /\ replies = << >>
    /\ calls = NoCalls
    /\ outcome = NoOutcome
    /\ fileFindings = << >>
    /\ scanErrors = { }
    /\ args = NoArgs
    /\ disk = NoDisk

Next ==
    \/ HandlerStart
    \/ HandlerFetched
    \/ MalwareReply
    \/ AiReply
    \/ HandlerScanned
    \/ HandlerResolved
    \/ ProcessRepoStart
    \/ ProcessRepoFetched
    \/ ProcessRepoScanned
    \/ ProcessRepoResolved
    \/ ScanDependencies
    \/ LoopDelayElapsed
    \/ RegistryReply
    \/ ResolveDelayElapsed
    \/ LookupNext

Spec == Init /\ [][Next]_vars

-----------------------------------------------------------------------------
(* A direct call scanDependencies(fileName, content). *)

\* File names outside the recognized set.
OtherFileNames ==
    { "build.gradle", "settings.gradle", "Gemfile", "Gemfile.lock",
      "Cargo.toml", "setup.py" }

DevEntry(packageName) ==
    [ packageName |-> packageName, prefix |-> << "~" >>, version |-> DeclaredVersion ]

\* What a caller may pass: the manifests a repository scan meets, a
\* Lines of a requirements.txt handed to the scanner: a pinned version, a
\* lower bound, a bare name, a comment, a blank line, the version text
\* "latest", an operator with blanks around it.
ScanLines ==
    { [ packageName |-> PkgNames[1], prefix |-> << "=", "=" >>, version |-> DeclaredVersion ],
      [ packageName |-> PkgNames[2], prefix |-> << ">", "=" >>, version |-> DeclaredVersion ],
      [ packageName |-> PkgNames[4], prefix |-> << >>, version |-> << >> ],
      [ packageName |-> "# flask", prefix |-> << "=", "=" >>, version |-> DeclaredVersion ],
      [ packageName |-> "", prefix |-> << >>, version |-> << >> ],
      [ packageName |-> PkgNames[3], prefix |-> << "=", "=" >>, version |-> V_latest ],
      [ packageName |-> PkgNames[3], prefix |-> << " ", "=", "=", " " >>,
        version |-> DeclaredVersion ] }

\* A package.json one of whose values is not a string, after n entries
\* that are.
WithNonString(n) ==
    Manifest("package.json", FALSE,
             Deps("package.json", n)
                 \o << [ packageName |-> PkgNames[4], prefix |-> << >>,
                         version |-> NotAString ] >>,
             << >>)

\* package.json with a devDependencies section or a value that is not a
\* string, requirements.txt with lines of every form, a pom.xml that is not
\* well-formed XML (the pattern of scanPomXml still extracts the blocks that
\* are complete), and files of other names.
ScanInputs ==
    Manifests
    \cup { Manifest("requirements.txt", FALSE, lines, << >>) :
               lines \in UNION { [ 1..n -> ScanLines ] : n \in 1..MaxDeps } }
    \cup { WithNonString(n) : n \in 0..(MaxDeps - 1) }
    \cup { Manifest("package.json", FALSE, Deps("package.json", n),
                    << DevEntry(PkgNames[k]) >>) :
               n \in 0..(MaxDeps - 1), k \in { 1, 4 } }
    \cup { Manifest("pom.xml", TRUE, Deps("pom.xml", n), << >>) :
               n \in 0..(MaxDeps - 1) }
    \cup { Manifest(nm, FALSE, << >>, << >>) : nm \in OtherFileNames }

\* scanDependencies settles: its caller has the findings.
ScanSettled ==
    /\ entry = "scanDependencies"
    /\ pc = "scanned"
    /\ outcome' = Returned(vulnerabilities)
    /\ pc' = "done"
    /\ UNCHANGED << args, disk, entry, repoUrl, fetchFails, repoFiles, dependencyFiles,
                    fileIdx, depIdx, vulnerabilities, secIdx, secureVersions,
                    malwareResult, aiAnalysis, results, repoVulnerabilities,
                    secureUpdates, call, retryCount, requests, waitTime,
                    replies, calls, fileFindings, scanErrors >>

InitScan ==
    /\ entry = "scanDependencies"
    /\ repoUrl = "missing"
    /\ fetchFails = FALSE
    /\ repoFiles = << >>
    /\ pc = "scan"
    /\ \E file \in ScanInputs : dependencyFiles = << file >>
    /\ fileIdx = 1
    /\ depIdx = 0
    /\ vulnerabilities = << >>
    /\ secIdx = 0
    /\ secureVersions = << >>
    /\ malwareResult = NoMalwareResult
    /\ aiAnalysis = "none"
    /\ results = << >>
    /\ repoVulnerabilities = << >>
    /\ secureUpdates = << >>
    /\ call = NoCall
    /\ retryCount = 0
    /\ requests = 0
    /\ waitTime = 0
    /\ replies = << >>
    /\ calls = NoCalls
    /\ outcome = NoOutcome
    /\ fileFindings = << >>
    /\ scanErrors = { }
    /\ args = NoArgs
    /\ disk = NoDisk

ScanNext ==
    \/ ScanDependencies
    \/ LoopDelayElapsed
    \/ ScanSettled
    \/ LookupNext

SpecScan == InitScan /\ [][ScanNext]_vars

-----------------------------------------------------------------------------
(* Direct calls of the resolver and the rewriter (secureDependencies). *)

V_4_2_0   == << "4", ".", "2", ".", "0" >>
V_5_0_0_b == << "5", ".", "0", ".", "0", "-", "b" >>

\* Version strings a registry document may list: Object.keys(response.data.versions)
PublishedVersions == { V_4_17_0, V_4_17_21, V_4_2_0, V_5_0_0_b }

\* A registry document: distinct version strings in the order of its keys.
RegistryDocs ==
    { d \in UNION { [ 1..k -> PublishedVersions ] : k \in 0..MaxPublished } :
          \A i, j \in DOMAIN d : i # j => d[i] # d[j] }

\* What a registry answers for a package, the same at every request.
RegistryOutcomes ==
    { RegistryFailure } \cup { [ ok |-> TRUE, versions |-> d ] : d \in RegistryDocs }

\* fetchSecureDependencies on a manifest JSON.parse accepts, every registry
\* request answered by reply.
fetchSecureDependencies(file, reply) ==
    [ i \in DOMAIN SecureDeps(file) |->
        Recommendation(SecureDeps(file)[i],
                       fetchSecureVersion(SecureDeps(file)[i].packageName,
                                          SecureDeps(file)[i].version,
                                          SecureEcosystem(file), reply)) ]

Entry(packageName, prefix, version) ==
    [ packageName |-> packageName, prefix |-> prefix, version |-> version ]

\* Range operators a declared expression may start with, and none.
ExprPrefixes == { << >>, << "^" >>, << "~" >>, << ">", "=" >> }

\* package.json contents handed to the rewriter.
PackageJsons ==
    { Manifest("package.json", FALSE, deps, dev) :
        deps \in { d \in UNION { [ 1..n -> { Entry(PkgNames[i], p, DeclaredVersion) :
                                               i \in 1..MaxDeps, p \in ExprPrefixes } ] :
                                 n \in 0..MaxDeps } :
                     \A i \in DOMAIN d : d[i].packageName = PkgNames[i] },
        dev  \in { << >> } \cup
                 { << Entry(nm, p, DeclaredVersion) >> :
                       nm \in { PkgNames[1], PkgNames[4] }, p \in ExprPrefixes } }

\* Lines of a requirements.txt: a pinned entry, a ranged entry, a bare name,
\* a comment, a comment that holds "==", a blank line.
RequirementLines ==
    { Entry(nm, op, DeclaredVersion) :
          nm \in { PkgNames[3], PkgNames[4] }, op \in { << "=", "=" >>, << ">", "=" >> } }
    \cup { Entry(nm, << >>, << >>) : nm \in { PkgNames[3], "#", "" } }
    \cup { Entry("# flask", << "=", "=" >>, DeclaredVersion) }

RequirementsTxts ==
    { Manifest("requirements.txt", FALSE, lines, << >>) :
        lines \in UNION { [ 1..n -> RequirementLines ] : n \in 0..MaxDeps } }

RecFor(packageName, secureVersion) ==
    Recommendation([ packageName |-> packageName, version |-> DeclaredVersion ],
                   [ secureVersion |-> secureVersion,
                     updateCommand |-> UpdateCommand("npm install", packageName, "@",
                                                     secureVersion) ])

\* The secureVersions argument of generateSecureFile.
RecLists(names) ==
    { << >> }
    \cup { << RecFor(nm, sv) >> :
               nm \in names, sv \in { V_4_17_0, V_4_17_21, V_latest, Undefined } }
    \cup { << RecFor(n1, V_4_17_21), RecFor(n2, V_4_17_21) >> : n1 \in names, n2 \in names }

-----------------------------------------------------------------------------
(* The updater: services/dependency-updater.js and the script of the
   workflow .github/workflows/main.yml. *)

V_4_17_210 == << "4", ".", "1", "7", ".", "2", "1", "0" >>
V_4_18_2   == << "4", ".", "1", "8", ".", "2" >>
V_1_6_2    == << "1", ".", "6", ".", "2" >>
V_2_2_3    == << "2", ".", "2", ".", "3" >>
V_5_3_30   == << "5", ".", "3", ".", "3", "0" >>

\* secureVersions[dep] of dependency-updater.js, Undefined without an entry.
TableVersion(dep) ==
    CASE dep = "express" -> V_4_18_2
      [] dep = "lodash"  -> V_4_17_21
      [] dep = "axios"   -> V_1_6_2
      [] dep = "Flask"   -> V_2_2_3
      [] dep = "org.springframework" -> V_5_3_30
      [] OTHER           -> Undefined

\* secureVersions[dep] of secure-versions.json, which the workflow writes.
WorkflowTableVersion(dep) ==
    CASE dep = "express" -> V_4_18_2
      [] dep = "lodash"  -> V_4_17_21
      [] dep = "Flask"   -> V_2_2_3
      [] dep = "org.springframework" -> V_5_3_30
      [] OTHER           -> Undefined

\* str.includes(sub)
Includes(str, sub) ==
    \E k \in 0..(Len(str) - Len(sub)) : SubSeq(str, k + 1, k + Len(sub)) = sub

\* currentVersion.match(/^([~^])/): the prefix the updater keeps
KeptPrefix(d) ==
    IF Expr(d) # << >> /\ IsRangeChar(Expr(d)[1]) THEN << Expr(d)[1] >> ELSE << >>

\* packageJson[depType][dep] = `${prefix}${secureVersions[dep]}`
UpdatedEntry(d, secureVersion) == Entry(d.packageName, KeptPrefix(d), secureVersion)

\* if (currentVersion.includes(secureVersions[dep])) return;
UpdaterSkips(d) == Includes(Expr(d), TableVersion(d.packageName))

\* !forceUpdate && (currentVersion === secure || === `^${secure}` || === `~${secure}`)
WorkflowSkips(d, forceUpdate) ==
    /\ ~ forceUpdate
    /\ Expr(d) \in { WorkflowTableVersion(d.packageName),
                     << "^" >> \o WorkflowTableVersion(d.packageName),
                     << "~" >> \o WorkflowTableVersion(d.packageName) }

\* Which entries of a section updatePackageJson assigns.
UpdaterAssigns(d) == TableVersion(d.packageName) # Undefined /\ ~ UpdaterSkips(d)

WorkflowAssigns(d, forceUpdate) ==
    WorkflowTableVersion(d.packageName) # Undefined /\ ~ WorkflowSkips(d, forceUpdate)

\* updates.push({ package: dep, from: currentVersion, to: ... })
UpdateRecord(d) ==
    [ package |-> d.packageName, from |-> Expr(d),
      to |-> Expr(UpdatedEntry(d, TableVersion(d.packageName))) ]

\* createBackup(filePath): its first statement is a bare return.
createBackup(d) == d

\* fs.writeFileSync(filePath, ...)
WriteFile(d, file) == [ d EXCEPT !.file = file, !.log = Append(@, "write") ]

\* updatePackageJson of dependency-updater.js: the directory afterwards and
\* the value returned.
updatePackageJson(d) ==
    IF ~ d.exists
    THEN [ disk |-> d, value |-> [ status |-> "skipped", updates |-> << >> ] ]
    ELSE IF d.file.malformed
    THEN [ disk |-> createBackup(d), value |-> [ status |-> "error", updates |-> << >> ] ]
    ELSE LET section(entries) ==
                 [ i \in DOMAIN entries |->
                     IF UpdaterAssigns(entries[i])
                     THEN UpdatedEntry(entries[i], TableVersion(entries[i].packageName))
                     ELSE entries[i] ]
             assigned == SelectSeq(d.file.deps, UpdaterAssigns)
                         \o SelectSeq(d.file.devDeps, UpdaterAssigns)
             updates  == [ i \in DOMAIN assigned |-> UpdateRecord(assigned[i]) ]
             packageJson == [ d.file EXCEPT !.deps    = section(d.file.deps),
                                            !.devDeps = section(d.file.devDeps) ]
         IN  [ disk  |-> IF Len(updates) > 0
                         THEN WriteFile(createBackup(d), packageJson)
                         ELSE createBackup(d),
               value |-> [ status  |-> IF Len(updates) > 0 THEN "updated" ELSE "no_changes",
                           updates |-> updates ] ]

\* updatePackageJson of the workflow script.  It has no try block: a
\* package.json that JSON.parse rejects ends the script.
workflowUpdatePackageJson(d, forceUpdate) ==
    IF ~ d.exists
    THEN [ disk |-> d, value |-> Returned([ status |-> "not found" ]) ]
    ELSE IF d.file.malformed
    THEN [ disk |-> d, value |-> Thrown(JsonSyntaxError) ]
    ELSE LET assigns(e) == WorkflowAssigns(e, forceUpdate)
             section(entries) ==
                 [ i \in DOMAIN entries |->
                     IF assigns(entries[i])
                     THEN UpdatedEntry(entries[i],
                                       WorkflowTableVersion(entries[i].packageName))
                     ELSE entries[i] ]
             updated == \/ \E i \in DOMAIN d.file.deps : assigns(d.file.deps[i])
                        \/ \E i \in DOMAIN d.file.devDeps : assigns(d.file.devDeps[i])
             packageJson == [ d.file EXCEPT !.deps    = section(d.file.deps),
                                            !.devDeps = section(d.file.devDeps) ]
         IN  [ disk  |-> IF updated THEN WriteFile(d, packageJson) ELSE d,
               value |-> Returned([ status |-> IF updated THEN "updated"
                                               ELSE "no_changes" ]) ]

\* !line.trim(), for a line without surrounding blanks
IsBlank(line) == line.packageName = "" /\ Expr(line) = << >>

\* line.split("==")[0]: the leading token of a pinned line or of a line that
\* is a bare name, else text that no table names.
FirstPart(line) ==
    IF line.prefix = << "=", "=" >> \/ Expr(line) = << >>
    THEN line.packageName
    ELSE "(the whole line)"

\* The lines updateRequirementsTxt of dependency-updater.js replaces.
UpdaterReplaces(line) ==
    /\ ~ IsBlank(line)
    /\ ~ StartsWithHash(line.packageName)
    /\ TableVersion(FirstPart(line)) # Undefined

\* The lines the workflow script replaces: the pattern
\* /^([a-zA-Z0-9_.-]+)(?:[<>=~]{1,2}|@)?(.*)?$/ gives the leading token and
\* the text after the operator.
WorkflowReplaces(line, forceUpdate) ==
    /\ ~ IsBlank(line)
    /\ ~ StartsWithHash(line.packageName)
    /\ WorkflowTableVersion(line.packageName) # Undefined
    /\ ~ (/\ ~ forceUpdate
          /\ line.version # << >>
          /\ line.version = WorkflowTableVersion(line.packageName))

\* updateRequirementsTxt of dependency-updater.js.
updateRequirementsTxt(d) ==
    IF ~ d.exists
    THEN [ disk |-> d, value |-> [ status |-> "skipped" ] ]
    ELSE LET lines == d.file.deps
             newLines ==
                 [ i \in DOMAIN lines |->
                     IF UpdaterReplaces(lines[i])
                     THEN Entry(FirstPart(lines[i]), << "=", "=" >>,
                                TableVersion(FirstPart(lines[i])))
                     ELSE lines[i] ]
             updatedCount == Cardinality({ i \in DOMAIN lines : UpdaterReplaces(lines[i]) })
         IN  [ disk  |-> IF updatedCount > 0
                         THEN WriteFile(createBackup(d), [ d.file EXCEPT !.deps = newLines ])
                         ELSE createBackup(d),
               value |-> [ status |-> IF updatedCount > 0 THEN "updated"
                                      ELSE "no_changes" ] ]

\* updateRequirementsTxt of the workflow script.
workflowUpdateRequirementsTxt(d, forceUpdate) ==
    IF ~ d.exists
    THEN [ disk |-> d, value |-> Returned([ status |-> "not found" ]) ]
    ELSE LET lines == d.file.deps
             updatedLines ==
                 [ i \in DOMAIN lines |->
                     IF WorkflowReplaces(lines[i], forceUpdate)
                     THEN Entry(lines[i].packageName, << "=", "=" >>,
                                WorkflowTableVersion(lines[i].packageName))
                     ELSE lines[i] ]
             updated == \E i \in DOMAIN lines : WorkflowReplaces(lines[i], forceUpdate)
         IN  [ disk  |-> IF updated
                         THEN WriteFile(d, [ d.file EXCEPT !.deps = updatedLines ])
                         ELSE d,
               value |-> Returned([ status |-> IF updated THEN "updated"
                                               ELSE "no_changes" ]) ]

\* Table keys in the order Object.keys(secureVersions) lists those that can
\* match an artifactId of the poms below.
PomTableKeys == << "org.springframework" >>

\* new RegExp(`(<artifactId>${dep}</artifactId>\\s*<version>)([^<]+)(</version>)`, "g"):
\* the key is pasted into the pattern unescaped, so each of its dots matches
\* any character; letters match case-sensitively.
ArtifactMatches(artifactId, dep) ==
    \/ artifactId = dep
    \/ dep = "org.springframework" /\ artifactId = "org-springframework"

\* The table keys whose pattern matches an artifactId/version pair of a
\* pom.xml, in table order; [^<]+ needs a version of one character at least.
PomHits(e) ==
    SelectSeq(PomTableKeys,
              LAMBDA dep : ArtifactMatches(e.packageName, dep) /\ e.version # << >>)

\* updatePomXml of dependency-updater.js: every match is replaced and the
\* file is written whether or not anything matched.
updatePomXml(d) ==
    IF ~ d.exists
    THEN [ disk |-> d, value |-> [ status |-> "skipped" ] ]
    ELSE LET replaced(e) ==
                 IF PomHits(e) = << >> THEN e
                 ELSE [ e EXCEPT !.version = TableVersion(PomHits(e)[Len(PomHits(e))]) ]
             pomXml == [ d.file EXCEPT !.deps =
                           [ i \in DOMAIN d.file.deps |-> replaced(d.file.deps[i]) ] ]
         IN  [ disk  |-> WriteFile(createBackup(d), pomXml),
               value |-> [ status |-> "updated" ] ]

\* updatePomXml of the workflow script: a match is replaced when forceUpdate
\* is set or its version differs; the file is written when the text changed.
workflowUpdatePomXml(d, forceUpdate) ==
    IF ~ d.exists
    THEN [ disk |-> d, value |-> Returned([ status |-> "not found" ]) ]
    ELSE LET hits(e) ==
                 SelectSeq(PomHits(e),
                           LAMBDA dep : \/ forceUpdate
                                        \/ e.version # WorkflowTableVersion(dep))
             replaced(e) ==
                 IF hits(e) = << >> THEN e
                 ELSE [ e EXCEPT !.version = WorkflowTableVersion(hits(e)[Len(hits(e))]) ]
             pomXml == [ d.file EXCEPT !.deps =
                           [ i \in DOMAIN d.file.deps |-> replaced(d.file.deps[i]) ] ]
             updated == pomXml # d.file
         IN  [ disk  |-> IF updated THEN WriteFile(d, pomXml) ELSE d,
               value |-> Returned([ status |-> IF updated THEN "updated"
                                               ELSE "no_changes" ]) ]

\* artifactId/version pairs of the pom.xml in the updater's directory: a
\* table key at the table's version and at another, a name that differs
\* from the key in one character, the key in other letter case, a name no
\* table lists.
UpdaterArtifacts ==
    { Entry(a, << >>, v) :
          a \in { "org.springframework", "org-springframework",
                  "Org.Springframework", "junit" },
          v \in { V_5_3_30, DeclaredVersion } }

UpdaterPomXmls ==
    { Manifest("pom.xml", FALSE, deps, << >>) :
        deps \in UNION { [ 1..n -> UpdaterArtifacts ] : n \in 0..MaxDeps } }

\* package.json files in the updater's directory: an entry the table names
\* in any of its forms, an entry it does not name.
UpdaterExprs ==
    { Entry(PkgNames[1], p, v) :
          p \in ExprPrefixes, v \in { V_4_17_0, V_4_17_21, V_4_17_210 } }

UpdaterPackageJsons ==
    { Manifest("package.json", FALSE, deps, dev) :
        deps \in { << >> } \cup { << e >> : e \in UpdaterExprs }
                 \cup { << e, Entry(PkgNames[3], << "^" >>, DeclaredVersion) >> :
                            e \in UpdaterExprs },
        dev  \in { << >> } \cup { << e >> : e \in UpdaterExprs } }
    \cup { Manifest("package.json", TRUE, << >>, << >>) }

\* Lines of the requirements.txt in the updater's directory.
UpdaterLines ==
    { Entry("Flask", << "=", "=" >>, v) : v \in { V_2_2_3, DeclaredVersion } }
    \cup { Entry("Flask", << ">", "=" >>, DeclaredVersion),
           Entry("Flask", << >>, << >>),
           Entry(PkgNames[3], << "=", "=" >>, DeclaredVersion),
           Entry("# Flask", << "=", "=" >>, DeclaredVersion),
           Entry("#", << >>, << >>),
           Entry("", << >>, << >>) }

UpdaterRequirementsTxts ==
    { Manifest("requirements.txt", FALSE, lines, << >>) :
        lines \in UNION { [ 1..n -> UpdaterLines ] : n \in 0..MaxDeps } }

OnDisk(file) == [ exists |-> TRUE, file |-> file, log |-> << >> ]

\* The working directory an updater function starts in.
DirectDisks(e) ==
    CASE e \in { "updatePackageJson", "workflowUpdatePackageJson" } ->
            { NoDisk } \cup { OnDisk(f) : f \in UpdaterPackageJsons }
      [] e \in { "updateRequirementsTxt", "workflowUpdateRequirementsTxt" } ->
            { NoDisk } \cup { OnDisk(f) : f \in UpdaterRequirementsTxts }
      [] e \in { "updatePomXml", "workflowUpdatePomXml" } ->
            { NoDisk } \cup { OnDisk(f) : f \in UpdaterPomXmls }
      [] OTHER -> { NoDisk }

DirectArgs(e) ==
    CASE e = "fetchSecureVersion" ->
            { [ packageName |-> PkgNames[1], currentVersion |-> v, ecosystem |-> eco,
                registry |-> r ] :
                  v \in { V_4_17_0, V_4_17_21, V_4_2_0 }, eco \in Ecosystems,
                  r \in RegistryOutcomes }
      [] e = "secureUpdate" ->
            { [ file |-> Manifest(nm, FALSE, Deps(nm, n), << >>), registry |-> r ] :
                  nm \in { "package.json", "requirements.txt" }, n \in 1..MaxDeps,
                  r \in RegistryOutcomes }
            \cup { [ file |-> Manifest("package.json", FALSE,
                                       << Entry(PkgNames[1], p, v) >>, << >>),
                     registry |-> r ] :
                  p \in ExprPrefixes, v \in { DeclaredVersion, V_5_0_0_b },
                  r \in RegistryOutcomes }
      [] e = "generateSecureFile" ->
            { [ file |-> f, secureVersions |-> recs ] :
                  f \in PackageJsons, recs \in RecLists({ PkgNames[1], PkgNames[4] }) }
            \cup { [ file |-> f, secureVersions |-> recs ] :
                  f \in RequirementsTxts, recs \in RecLists({ PkgNames[3], PkgNames[4] }) }
      [] e \in { "workflowUpdatePackageJson", "workflowUpdateRequirementsTxt",
                 "workflowUpdatePomXml" } ->
            { [ forceUpdate |-> f ] : f \in BOOLEAN }
      [] OTHER -> { NoArgs }

\* fetchSecureVersion(packageName, currentVersion, ecosystem) settles.
FetchSecureVersionCall ==
    /\ entry = "fetchSecureVersion"
    /\ pc = "start"
    /\ calls' = [ calls EXCEPT !.registry = IF args.ecosystem = "maven" THEN @ ELSE @ + 1 ]
    /\ outcome' = Returned(fetchSecureVersion(args.packageName, args.currentVersion,
                                              args.ecosystem, args.registry))
    /\ pc' = "done"
    /\ UNCHANGED << args, disk, entry, repoUrl, fetchFails, repoFiles, dependencyFiles,
                    fileIdx, depIdx, vulnerabilities, secIdx, secureVersions,
                    malwareResult, aiAnalysis, results, repoVulnerabilities,
                    secureUpdates, call, retryCount, requests, waitTime,
                    replies, fileFindings, scanErrors >>

\* One upgrade pass over a manifest, fetchSecureDependencies followed by
\* generateSecureFile; the next pass reads what this one wrote.
SecureUpdatePass ==
    /\ entry = "secureUpdate"
    /\ pc \in { "start", "again" }
    /\ LET recs    == fetchSecureDependencies(args.file, args.registry)
           updated == generateSecureFile(args.file, recs)
           earlier == IF outcome = NoOutcome THEN << >> ELSE outcome.value
       IN  /\ outcome' = Returned(Append(earlier,
                             [ content        |-> args.file,
                               secureVersions |-> recs,
                               updatedContent |-> updated ]))
           /\ calls' = [ calls EXCEPT !.registry = @ + Len(recs) ]
           /\ args' = [ args EXCEPT !.file = updated ]
    /\ pc' = IF pc = "start" THEN "again" ELSE "done"
    /\ UNCHANGED << disk, entry, repoUrl, fetchFails, repoFiles, dependencyFiles,
                    fileIdx, depIdx, vulnerabilities, secIdx, secureVersions,
                    malwareResult, aiAnalysis, results, repoVulnerabilities,
                    secureUpdates, call, retryCount, requests, waitTime,
                    replies, fileFindings, scanErrors >>

\* generateSecureFile(fileName, content, secureVersions) returns.
GenerateSecureFileCall ==
    /\ entry = "generateSecureFile"
    /\ pc = "start"
    /\ outcome' = Returned(generateSecureFile(args.file, args.secureVersions))
    /\ pc' = "done"
    /\ UNCHANGED << args, disk, entry, repoUrl, fetchFails, repoFiles, dependencyFiles,
                    fileIdx, depIdx, vulnerabilities, secIdx, secureVersions,
                    malwareResult, aiAnalysis, results, repoVulnerabilities,
                    secureUpdates, call, retryCount, requests, waitTime,
                    replies, calls, fileFindings, scanErrors >>

\* updatePackageJson(filePath) of dependency-updater.js settles.
UpdatePackageJsonCall ==
    /\ entry = "updatePackageJson"
    /\ pc = "start"
    /\ disk' = updatePackageJson(disk).disk
    /\ outcome' = Returned(updatePackageJson(disk).value)
    /\ pc' = "done"
    /\ UNCHANGED << args, entry, repoUrl, fetchFails, repoFiles, dependencyFiles,
                    fileIdx, depIdx, vulnerabilities, secIdx, secureVersions,
                    malwareResult, aiAnalysis, results, repoVulnerabilities,
                    secureUpdates, call, retryCount, requests, waitTime,
                    replies, calls, fileFindings, scanErrors >>

\* updateRequirementsTxt(filePath) of dependency-updater.js settles.
UpdateRequirementsTxtCall ==
    /\ entry = "updateRequirementsTxt"
    /\ pc = "start"
    /\ disk' = updateRequirementsTxt(disk).disk
    /\ outcome' = Returned(updateRequirementsTxt(disk).value)
    /\ pc' = "done"
    /\ UNCHANGED << args, entry, repoUrl, fetchFails, repoFiles, dependencyFiles,
                    fileIdx, depIdx, vulnerabilities, secIdx, secureVersions,
                    malwareResult, aiAnalysis, results, repoVulnerabilities,
                    secureUpdates, call, retryCount, requests, waitTime,
                    replies, calls, fileFindings, scanErrors >>

\* updatePackageJson() of the workflow script returns or throws.
WorkflowUpdatePackageJsonCall ==
    /\ entry = "workflowUpdatePackageJson"
    /\ pc = "start"
    /\ disk' = workflowUpdatePackageJson(disk, args.forceUpdate).disk
    /\ outcome' = workflowUpdatePackageJson(disk, args.forceUpdate).value
    /\ pc' = "done"
    /\ UNCHANGED << args, entry, repoUrl, fetchFails, repoFiles, dependencyFiles,
                    fileIdx, depIdx, vulnerabilities, secIdx, secureVersions,
                    malwareResult, aiAnalysis, results, repoVulnerabilities,
                    secureUpdates, call, retryCount, requests, waitTime,
                    replies, calls, fileFindings, scanErrors >>

\* updateRequirementsTxt() of the workflow script returns.
WorkflowUpdateRequirementsTxtCall ==
    /\ entry = "workflowUpdateRequirementsTxt"
    /\ pc = "start"
    /\ disk' = workflowUpdateRequirementsTxt(disk, args.forceUpdate).disk
    /\ outcome' = workflowUpdateRequirementsTxt(disk, args.forceUpdate).value
    /\ pc' = "done"
    /\ UNCHANGED << args, entry, repoUrl, fetchFails, repoFiles, dependencyFiles,
                    fileIdx, depIdx, vulnerabilities, secIdx, secureVersions,
                    malwareResult, aiAnalysis, results, repoVulnerabilities,
                    secureUpdates, call, retryCount, requests, waitTime,
                    replies, calls, fileFindings, scanErrors >>

\* updatePomXml(filePath) of dependency-updater.js settles.
UpdatePomXmlCall ==
    /\ entry = "updatePomXml"
    /\ pc = "start"
    /\ disk' = updatePomXml(disk).disk
    /\ outcome' = Returned(updatePomXml(disk).value)
    /\ pc' = "done"
    /\ UNCHANGED << args, entry, repoUrl, fetchFails, repoFiles, dependencyFiles,
                    fileIdx, depIdx, vulnerabilities, secIdx, secureVersions,
                    malwareResult, aiAnalysis, results, repoVulnerabilities,
                    secureUpdates, call, retryCount, requests, waitTime,
                    replies, calls, fileFindings, scanErrors >>

\* updatePomXml() of the workflow script returns.
WorkflowUpdatePomXmlCall ==
    /\ entry = "workflowUpdatePomXml"
    /\ pc = "start"
    /\ disk' = workflowUpdatePomXml(disk, args.forceUpdate).disk
    /\ outcome' = workflowUpdatePomXml(disk, args.forceUpdate).value
    /\ pc' = "done"
    /\ UNCHANGED << args, entry, repoUrl, fetchFails, repoFiles, dependencyFiles,
                    fileIdx, depIdx, vulnerabilities, secIdx, secureVersions,
                    malwareResult, aiAnalysis, results, repoVulnerabilities,
                    secureUpdates, call, retryCount, requests, waitTime,
                    replies, calls, fileFindings, scanErrors >>

DirectEntries ==
    { "fetchSecureVersion", "secureUpdate", "generateSecureFile",
      "updatePackageJson", "updateRequirementsTxt", "updatePomXml",
      "workflowUpdatePackageJson", "workflowUpdateRequirementsTxt",
      "workflowUpdatePomXml" }

InitDirect ==
    /\ entry \in DirectEntries
    /\ args \in DirectArgs(entry)
    /\ disk \in DirectDisks(entry)
    /\ repoUrl = "missing"
    /\ fetchFails = FALSE
    /\ repoFiles = IF disk.exists THEN << disk.file >> ELSE << >>
    /\ pc = "start"
    /\ dependencyFiles = << >>
    /\ fileIdx = 0
    /\ depIdx = 0
    /\ vulnerabilities = << >>
    /\ secIdx = 0
    /\ secureVersions = << >>
    /\ malwareResult = NoMalwareResult
    /\ aiAnalysis = "none"
    /\ results = << >>
    /\ repoVulnerabilities = << >>
    /\ secureUpdates = << >>
    /\ call = NoCall
    /\ retryCount = 0
    /\ requests = 0
    /\ waitTime = 0
    /\ replies = << >>
    /\ calls = NoCalls
    /\ outcome = NoOutcome
    /\ fileFindings = << >>
    /\ scanErrors = { }

DirectNext ==
    \/ FetchSecureVersionCall
    \/ SecureUpdatePass
    \/ GenerateSecureFileCall
    \/ UpdatePackageJsonCall
    \/ UpdateRequirementsTxtCall
    \/ WorkflowUpdatePackageJsonCall
    \/ WorkflowUpdateRequirementsTxtCall
    \/ UpdatePomXmlCall
    \/ WorkflowUpdatePomXmlCall

SpecDirect == InitDirect /\ [][DirectNext]_vars

-----------------------------------------------------------------------------
(* Properties. *)

LookupDone == entry = "scanDependency" /\ pc = "done"

ScanDone == entry \in { "handler", "processRepo" } /\ pc = "done"

LastReply == replies[Len(replies)]

Is429(r) == r.kind = "status" /\ r.status = 429

IsSyntheticScanError(findings) ==
    /\ Len(findings) = 1
    /\ findings[1].severity = "unknown"
    /\ findings[1].title = "Scan Error"

MalwareBlocked == outcome.kind = "http" /\ outcome.status = 403

FetchSucceeds == repoUrl = "valid" /\ ~ fetchFails

TotalFindings == SumLen(fileFindings, "findings")

Occurs(x, seq) == \E k \in DOMAIN seq : seq[k] = x

\* C1: a lookup whose every attempt fails with HTTP 429 issues exactly 4
\* oracle requests (1 initial + 3 retries) and then returns exactly one
\* finding with severity 'unknown' and title 'Scan Error'; it never issues a
\* 5th request and never returns an empty list.
C1_RetryBound ==
    (entry = "scanDependency" /\ \A i \in DOMAIN replies : Is429(replies[i])) =>
        /\ requests <= 4
        /\ (pc = "done" =>
              /\ requests = 4
              /\ outcome.kind = "return"
              /\ IsSyntheticScanError(outcome.value))

C1_Witness ==
    /\ LookupDone
    /\ Len(replies) = 4
    /\ \A i \in DOMAIN replies : Is429(replies[i])
    /\ requests = 4
    /\ IsSyntheticScanError(outcome.value)

\* C2: whenever a dependency lookup ends in a synthetic unknown-severity
\* 'Scan Error' finding, the finished scan gives a report that holds that
\* finding in its file's vulnerabilities list, counts it in
\* totalVulnerabilities and has overall status 'vulnerable'.
C2_ScanErrorsSurface ==
    (ScanDone /\ scanErrors # { } /\ ~ MalwareBlocked) =>
        IF entry = "handler"
        THEN /\ outcome.status = 200
             /\ \A e \in scanErrors :
                    /\ e.file <= Len(outcome.body.results)
                    /\ Occurs(e.finding, outcome.body.results[e.file].vulnerabilities)
             /\ outcome.body.summary.totalVulnerabilities >= Cardinality(scanErrors)
             /\ outcome.body.summary.status = "vulnerable"
        ELSE /\ outcome.kind = "return"
             /\ outcome.value.status = "vulnerable"
             /\ \A e \in scanErrors :
                    Occurs([ finding |-> e.finding,
                             file    |-> dependencyFiles[e.file].name ],
                           outcome.value.vulnerabilities)

\* C3: for every completed scan of one or more manifest files the
\* repository-level total of vulnerabilities equals the sum of the per-file
\* finding counts (no deduplication across files), and the overall status is
\* 'vulnerable' if and only if that sum is greater than 0, 'secure' otherwise.
C3_Aggregation ==
    (ScanDone /\ Len(dependencyFiles) > 0) =>
        /\ (entry = "handler" /\ outcome.status = 200) =>
              /\ outcome.body.summary.totalVulnerabilities = TotalFindings
              /\ outcome.body.summary.status =
                     IF TotalFindings > 0 THEN "vulnerable" ELSE "secure"
              /\ Len(fileFindings) = Len(dependencyFiles)
        /\ (entry = "processRepo" /\ outcome.kind = "return") =>
              /\ Len(outcome.value.vulnerabilities) = TotalFindings
              /\ outcome.value.status =
                     IF TotalFindings > 0 THEN "vulnerable" ELSE "secure"
              /\ Len(fileFindings) = Len(dependencyFiles)

C3_Witness ==
    /\ ScanDone
    /\ entry = "handler"
    /\ outcome.status = 200
    /\ Len(outcome.body.results) = 2
    /\ Len(outcome.body.results[1].vulnerabilities) = 1
    /\ Len(outcome.body.results[2].vulnerabilities) = 1
    /\ outcome.body.results[1].vulnerabilities[1].package =
           outcome.body.results[2].vulnerabilities[1].package
    /\ outcome.body.summary.totalVulnerabilities = 2
    /\ outcome.body.summary.status = "vulnerable"

\* C4: in a scan of several manifest files of which one is malformed, the
\* scan records a Parse Error finding for that file and still completes with
\* the results of every file; it never ends in HTTP 500 or a rejection.
C4_ParseErrorLocalized ==
    (/\ ScanDone
     /\ Len(dependencyFiles) >= 2
     /\ \E i \in DOMAIN dependencyFiles : dependencyFiles[i].malformed
     /\ ~ MalwareBlocked) =>
        IF entry = "handler"
        THEN /\ outcome.status = 200
             /\ Len(outcome.body.results) = Len(dependencyFiles)
             /\ \A i \in DOMAIN dependencyFiles :
                    dependencyFiles[i].malformed =>
                        \E k \in DOMAIN outcome.body.results[i].vulnerabilities :
                            outcome.body.results[i].vulnerabilities[k].title = "Parse Error"
        ELSE /\ outcome.kind = "return"
             /\ \E k \in DOMAIN outcome.value.vulnerabilities :
                    outcome.value.vulnerabilities[k].finding.title = "Parse Error"

\* C5: whenever manifest fetching succeeds, processRepo returns a report
\* (status 'secure', 'vulnerable' or 'unknown') instead of throwing; with at
\* least one finding the returned report has status 'vulnerable' and holds
\* the findings.
C5_ProcessRepoReturns ==
    (entry = "processRepo" /\ pc = "done" /\ FetchSucceeds) =>
        /\ outcome.kind = "return"
        /\ outcome.value.status \in { "secure", "vulnerable", "unknown" }
        /\ Len(repoVulnerabilities) > 0 =>
              /\ outcome.value.status = "vulnerable"
              /\ outcome.value.vulnerabilities = repoVulnerabilities

\* C6: when the fetcher returns zero recognized manifest files the scan
\* gives the third report shape (HTTP 404 with status 'warning' in the /scan
\* handler, status 'unknown' in processRepo) without vulnerability or
\* recommendation arrays, never 'secure', and no malware, AI, oracle or
\* registry call is made.
C6_NoManifests ==
    (entry \in { "handler", "processRepo" } /\ FetchSucceeds /\ repoFiles = << >>) =>
        /\ calls = NoCalls
        /\ pc = "done" =>
              IF entry = "handler"
              THEN /\ outcome.kind = "http"
                   /\ outcome.status = 404
                   /\ outcome.body.status = "warning"
                   /\ DOMAIN outcome.body \cap
                          { "results", "vulnerabilities", "secureVersions", "summary" } = { }
              ELSE /\ outcome.kind = "return"
                   /\ outcome.value.status = "unknown"
                   /\ DOMAIN outcome.value \cap
                          { "vulnerabilities", "fixes", "secureUpdates" } = { }

C6_Witness ==
    /\ ScanDone
    /\ entry = "handler"
    /\ FetchSucceeds
    /\ repoFiles = << >>
    /\ outcome.status = 404
    /\ outcome.body.status = "warning"

MalwareFlagged(verdict) ==
    verdict.settled = "stats" /\ (verdict.malicious > 0 \/ verdict.suspicious > 0)

\* C7: the /scan endpoint responds 404 when no dependency files are found,
\* 403 with error 'Malware detected in dependencies!' when the malware scan
\* of a manifest reports malicious > 0 or suspicious > 0, and 200 otherwise;
\* each request gets exactly one of these responses.
C7_ResponseCodes ==
    (entry = "handler" /\ FetchSucceeds) =>
        /\ MalwareFlagged(malwareResult) =>
              /\ pc = "done"
              /\ outcome.status = 403
              /\ outcome.body.error = "Malware detected in dependencies!"
        /\ pc = "done" =>
              /\ outcome.status \in { 404, 403, 200 }
              /\ outcome.status = 404 <=> repoFiles = << >>
              /\ outcome.status = 403 => MalwareFlagged(malwareResult)

ClaimedSeverity(cvssScore) ==
    IF cvssScore = NoScore THEN "unknown"
    ELSE IF cvssScore >= 70 THEN "high"
    ELSE IF cvssScore >= 40 THEN "medium"
    ELSE "low"

\* C8: severity is derived from the cvssScore of each oracle vulnerability:
\* score >= 7 gives 'high', 4 <= score < 7 gives 'medium', score < 4 gives
\* 'low', and an absent score gives 'unknown'.
C8_SeverityBuckets ==
    (LookupDone /\ LastReply.kind = "ok" /\ LastReply.scores # << >>) =>
        /\ Len(outcome.value) = Len(LastReply.scores)
        /\ \A i \in DOMAIN outcome.value :
               outcome.value[i].severity = ClaimedSeverity(LastReply.scores[i])

\* C9: an oracle response whose body is missing, is not an array, or is an
\* empty array makes scanDependency return exactly one synthetic finding
\* with severity 'unknown' and title 'Scan Error'; it never throws and never
\* returns an empty list for such a response.
C9_MalformedResponse ==
    (/\ LookupDone
     /\ LastReply.kind = "ok"
     /\ LastReply.shape \in { "missing", "object", "empty" }) =>
        /\ outcome.kind = "return"
        /\ IsSyntheticScanError(outcome.value)
        /\ outcome.value[1].package = call.packageName

C9_Witness ==
    /\ LookupDone
    /\ LastReply.kind = "ok"
    /\ LastReply.shape = "empty"
    /\ IsSyntheticScanError(outcome.value)

Unretried(r) ==
    \/ r.kind = "setup"
    \/ r.kind = "status" /\ r.status < 500 /\ r.status # 429

RequestsAnswered == Cardinality({ i \in DOMAIN replies : replies[i].kind # "setup" })

\* C10: a lookup failure that is not retried (an HTTP error status below 500
\* other than 429, or an error raised before any request was sent) makes
\* scanDependency issue no further request and return exactly one finding
\* with severity 'unknown' and title 'Scan Error' that carries the failure
\* message; the same single finding is returned when the retries are
\* exhausted.
C10_UnretriedFailure ==
    (entry = "scanDependency" /\ replies # << >>) =>
        /\ Unretried(LastReply) =>
              /\ pc = "done"
              /\ requests = RequestsAnswered
        /\ (pc = "done" /\ LastReply.kind # "ok") =>
              /\ outcome.kind = "return"
              /\ IsSyntheticScanError(outcome.value)
              /\ outcome.value[1].error = ErrMessage(LastReply)
              /\ outcome.value[1].package = call.packageName
              /\ outcome.value[1].version = call.version

C10_Witness ==
    /\ LookupDone
    /\ Len(replies) = 2
    /\ Is429(replies[1])
    /\ replies[2].kind = "status" /\ replies[2].status = 403
    /\ requests = 2
    /\ IsSyntheticScanError(outcome.value)

DirectScanDone == entry = "scanDependencies" /\ pc = "done"

\* C11: scanDependencies called with a file name outside { package.json,
\* requirements.txt, pom.xml } returns exactly one finding with title
\* 'Unsupported Format' and severity 'unknown', never an empty list and never
\* an exception.
C11_UnsupportedFormat ==
    (DirectScanDone /\ CurrentFile.name \notin RecognizedFiles) =>
        /\ outcome.kind = "return"
        /\ Len(outcome.value) = 1
        /\ outcome.value[1].title = "Unsupported Format"
        /\ outcome.value[1].severity = "unknown"

\* C12: scanning a manifest whose content cannot be parsed (malformed JSON
\* for package.json, malformed XML for pom.xml) issues no oracle request and
\* returns exactly one finding with title 'Parse Error' and severity
\* 'unknown' that carries the parser's message; nothing is raised.
C12_ParseError ==
    (entry = "scanDependencies" /\ CurrentFile.malformed) =>
        /\ calls.oracle = 0
        /\ pc = "done" =>
              /\ outcome.kind = "return"
              /\ Len(outcome.value) = 1
              /\ outcome.value[1].title = "Parse Error"
              /\ outcome.value[1].severity = "unknown"
              /\ outcome.value[1].description =
                     "Failed to parse " \o CurrentFile.name \o ": " \o JsonSyntaxError

\* C13: for any manifest and any fixed registry data, a second upgrade pass
\* (fetchSecureDependencies, then generateSecureFile) over the manifest the
\* first pass wrote gives no recommendation with isSecure = false and
\* output text identical to its input.
C13_Idempotence ==
    (entry = "secureUpdate" /\ pc = "done") =>
        /\ \A i \in DOMAIN outcome.value[2].secureVersions :
               outcome.value[2].secureVersions[i].isSecure
        /\ outcome.value[2].updatedContent = outcome.value[2].content

DirectDone(e) == entry = e /\ pc = "done"

\* The manifest as it was before the updater ran.
CheckedOut == repoFiles[1]

\* C14: for requirements.txt the rewritten text has exactly as many lines
\* as the input, in the same order, and every line that does not name a
\* package with a recommendation (comment lines and blank lines included) is
\* returned verbatim at its position.
C14_LinesPreserved ==
    /\ (DirectDone("generateSecureFile") /\ args.file.name = "requirements.txt") =>
          /\ Len(outcome.value.deps) = Len(args.file.deps)
          /\ \A i \in DOMAIN args.file.deps :
                /\ outcome.value.deps[i].packageName = args.file.deps[i].packageName
                /\ (\A k \in DOMAIN args.secureVersions :
                        args.secureVersions[k].packageName # args.file.deps[i].packageName)
                   => outcome.value.deps[i] = args.file.deps[i]
    /\ (DirectDone("updateRequirementsTxt") /\ disk.exists) =>
          /\ Len(disk.file.deps) = Len(CheckedOut.deps)
          /\ \A i \in DOMAIN CheckedOut.deps :
                /\ disk.file.deps[i].packageName = CheckedOut.deps[i].packageName
                /\ TableVersion(CheckedOut.deps[i].packageName) = Undefined
                   => disk.file.deps[i] = CheckedOut.deps[i]

C14_Witness ==
    /\ DirectDone("generateSecureFile")
    /\ args.file.name = "requirements.txt"
    /\ Len(args.file.deps) = 2
    /\ args.file.deps[1].packageName = "#"
    /\ outcome.value.deps[1] = args.file.deps[1]
    /\ args.file.deps[2] = Entry(PkgNames[3], << "=", "=" >>, V_4_17_0)
    /\ outcome.value.deps[2] = Entry(PkgNames[3], << "=", "=" >>, V_4_17_21)

CarriesSecure(d, secureVersion) ==
    Expr(d) \in { secureVersion, << "^" >> \o secureVersion, << "~" >> \o secureVersion }

Counted(d, updates) ==
    \E k \in DOMAIN updates :
        updates[k].package = d.packageName /\ updates[k].from = Expr(d)

\* C16: a package.json entry is left exactly as declared and is not counted
\* as an update if and only if its declared expression is the target secure
\* version, bare or prefixed by '^' or '~'; any other expression for a
\* package with a known secure version is rewritten.  (The workflow script
\* is taken without its force-update input.)
C16_AlreadySecureSkipped ==
    /\ (DirectDone("updatePackageJson") /\ outcome.value.status \in { "updated", "no_changes" }) =>
          LET skipped(before, after) ==
                  \A i \in DOMAIN before :
                      TableVersion(before[i].packageName) # Undefined =>
                          (CarriesSecure(before[i], TableVersion(before[i].packageName))
                           <=> (/\ after[i] = before[i]
                                /\ ~ Counted(before[i], outcome.value.updates)))
          IN  /\ skipped(CheckedOut.deps, disk.file.deps)
              /\ skipped(CheckedOut.devDeps, disk.file.devDeps)
    /\ (/\ DirectDone("workflowUpdatePackageJson")
        /\ ~ args.forceUpdate
        /\ outcome.kind = "return"
        /\ disk.exists) =>
          LET skipped(before, after) ==
                  \A i \in DOMAIN before :
                      WorkflowTableVersion(before[i].packageName) # Undefined =>
                          (CarriesSecure(before[i],
                                         WorkflowTableVersion(before[i].packageName))
                           <=> after[i] = before[i])
          IN  /\ skipped(CheckedOut.deps, disk.file.deps)
              /\ skipped(CheckedOut.devDeps, disk.file.devDeps)
    /\ (DirectDone("generateSecureFile") /\ args.file.name = "package.json") =>
          LET recs == args.secureVersions
              skipped(before, after) ==
                  \A i \in DOMAIN before : \A k \in DOMAIN recs :
                      (/\ recs[k].packageName = before[i].packageName
                       /\ recs[k].secureVersion # Undefined) =>
                          (CarriesSecure(before[i], recs[k].secureVersion)
                           <=> after[i] = before[i])
          IN  /\ skipped(args.file.deps, outcome.value.deps)
              /\ skipped(args.file.devDeps, outcome.value.devDeps)

\* A line names a package of the table: the text before its operator is a key.
NamesTablePackage(line) ==
    /\ ~ IsBlank(line)
    /\ ~ StartsWithHash(line.packageName)
    /\ TableVersion(line.packageName) # Undefined

AllPinnedSecure(file) ==
    \A i \in DOMAIN file.deps :
        NamesTablePackage(file.deps[i]) =>
            /\ file.deps[i].prefix = << "=", "=" >>
            /\ file.deps[i].version = TableVersion(file.deps[i].packageName)

\* C17: for a requirements.txt in which every line naming a package of the
\* secure-version table pins it with '==' to the table's version, the
\* updater leaves every line unchanged, counts zero updates (status
\* 'no_changes') and does not write the file.
C17_PinnedSecureUntouched ==
    (/\ \/ DirectDone("updateRequirementsTxt")
        \/ DirectDone("workflowUpdateRequirementsTxt") /\ ~ args.forceUpdate
     /\ disk.exists
     /\ AllPinnedSecure(CheckedOut)) =>
        /\ disk.file = CheckedOut
        /\ outcome.value.status = "no_changes"
        /\ disk.log = << >>

\* C18: for every ecosystem (npm, pypi, maven) and every registry outcome
\* (any set of published versions, timeout, network error, 404)
\* fetchSecureVersion returns, without raising, a defined non-empty
\* secureVersion and a defined updateCommand; on registry failure these are
\* 'latest' and a generic upgrade command.
C18_UsableRecommendation ==
    DirectDone("fetchSecureVersion") =>
        /\ outcome.kind = "return"
        /\ outcome.value.secureVersion \notin { Undefined, << >> }
        /\ outcome.value.updateCommand.tool # "undefined"
        /\ ~ args.registry.ok =>
              /\ outcome.value.secureVersion = V_latest
              /\ outcome.value.updateCommand.tool \in
                     { "npm install", "pip install --upgrade" }

\* The strings of a list, and the extremes of a set of strings under
\* code-unit order.
Published(versions) == { versions[i] : i \in DOMAIN versions }

Smallest(S) == CHOOSE v \in S : \A w \in S : ~ StrGreater(v, w)

Largest(S) == CHOOSE v \in S : \A w \in S : ~ StrGreater(w, v)

\* C19: from a registry document the resolver considers only the versions
\* of the strict major.minor.patch pattern and selects the smallest one
\* strictly greater than currentVersion under lexicographic order; when none
\* is greater it returns the lexicographically largest published version.
\* This holds for npm and for pypi.
C19_Selection ==
    (/\ DirectDone("fetchSecureVersion")
     /\ args.ecosystem \in { "npm", "pypi" }
     /\ args.registry.ok
     /\ args.registry.versions # << >>) =>
        LET strict == { v \in Published(args.registry.versions) : StrictVersion(v) }
            newer  == { v \in strict : StrGreater(v, args.currentVersion) }
        IN  outcome.value.secureVersion =
                IF newer # { } THEN Smallest(newer)
                ELSE Largest(Published(args.registry.versions))

\* C20: the resolver and the rewriter run for a file only when the scan of
\* that file produced at least one finding; a file with no findings gets no
\* registry request and no rewritten content. The guard applies in every
\* entry point, the /scan handler and processRepo alike.
C20_ResolverGuarded ==
    pc \in { "registry", "delay1000", "resolved" } => Len(vulnerabilities) > 0

\* Whether an artifactId/version pair of a pom.xml qualifies for the
\* rewrite: the artifactId is a table key and the version is not the table's
\* (or force-update mode is on).
PomQualifies(e, secure, forceUpdate) ==
    secure # Undefined /\ (forceUpdate \/ e.version # secure)

\* What the rewrite of a pom.xml is to leave behind, workflow telling the
\* table in use.
PomRewriteAsClaimed(workflow, forceUpdate) ==
    LET secure(e) == IF workflow THEN WorkflowTableVersion(e.packageName)
                     ELSE TableVersion(e.packageName)
        qualifies(e) == PomQualifies(e, secure(e), forceUpdate)
    IN  /\ disk.exists
        /\ \A i \in DOMAIN CheckedOut.deps :
               disk.file.deps[i] =
                   IF qualifies(CheckedOut.deps[i])
                   THEN [ CheckedOut.deps[i] EXCEPT !.version = secure(CheckedOut.deps[i]) ]
                   ELSE CheckedOut.deps[i]
        /\ (\A i \in DOMAIN CheckedOut.deps : ~ qualifies(CheckedOut.deps[i])) =>
               /\ outcome.value.status # "updated"
               /\ disk.log = << >>

\* C21: the rewrite of a pom.xml replaces the version after
\* <artifactId>K</artifactId> exactly when K equals a table key
\* (case-sensitive, exact) and the version differs from the table's, or
\* unconditionally in force-update mode; all other text is unchanged, and a
\* pom.xml with no qualifying entry is reported as not updated and is not
\* written.
C21_PomRewrite ==
    /\ (DirectDone("updatePomXml") /\ repoFiles # << >>) =>
           PomRewriteAsClaimed(FALSE, FALSE)
    /\ (DirectDone("workflowUpdatePomXml") /\ repoFiles # << >>) =>
           PomRewriteAsClaimed(TRUE, args.forceUpdate)

\* C22: with backupFiles enabled (the configured value), every write of a
\* manifest by updatePackageJson, updateRequirementsTxt or updatePomXml of
\* the dependency updater is preceded, in the same run, by the creation of
\* a backup copy of the file.
C22_BackupBeforeWrite ==
    entry \in { "updatePackageJson", "updateRequirementsTxt", "updatePomXml" } =>
        \A i \in DOMAIN disk.log :
            disk.log[i] = "write" => \E j \in 1..(i - 1) : disk.log[j] = "backup"

\* isSecure of every recommendation of a list is the equality of its two
\* version strings.
IsSecureExact(recs) ==
    \A i \in DOMAIN recs :
        recs[i].isSecure <=> (recs[i].secureVersion = recs[i].currentVersion)

Insecure(recs) == { i \in DOMAIN recs : ~ recs[i].isSecure }

\* C23: every recommendation returned by fetchSecureDependencies has
\* isSecure = true if and only if its secureVersion is the same string as
\* its currentVersion, and the per-file summary of the /scan handler has
\* needsUpdate = number of recommendations with isSecure = false
\* <= totalDependencies = number of recommendations.
C23_IsSecureAndSummary ==
    /\ IsSecureExact(secureVersions)
    /\ \A k \in DOMAIN results :
           /\ IsSecureExact(results[k].secureVersions)
           /\ results[k].summary.needsUpdate
                  = Cardinality(Insecure(results[k].secureVersions))
           /\ results[k].summary.totalDependencies = Len(results[k].secureVersions)
           /\ results[k].summary.needsUpdate <= results[k].summary.totalDependencies

C23_Witness ==
    /\ entry = "handler"
    /\ pc = "done"
    /\ \E k \in DOMAIN results :
           /\ \E i \in DOMAIN results[k].secureVersions :
                  results[k].secureVersions[i].isSecure
           /\ \E i \in DOMAIN results[k].secureVersions :
                  /\ ~ results[k].secureVersions[i].isSecure
                  /\ results[k].secureVersions[i].secureVersion = V_latest
           /\ results[k].summary.needsUpdate = 1
           /\ results[k].summary.totalDependencies = 2

\* The failures the retry policy covers: HTTP 429, a status of 500 or more,
\* no response received.
Retryable(r) ==
    \/ r.kind = "status" /\ (r.status = 429 \/ r.status >= 500)
    \/ r.kind = "noResponse"

\* C24: within one lookup a failed attempt is retried only when the failure
\* is HTTP 429, a status >= 500 or no response, and fewer than 3 retries
\* have been made; the wait before the n-th retry is n x 2000 ms; the budget
\* is shared across failure kinds, so a lookup issues at most 4 requests;
\* a well-formed response on any attempt ends the lookup with that
\* response's findings and no 'Scan Error'.
C24_RetryPolicy ==
    entry = "scanDependency" =>
        /\ requests <= 4
        /\ retryCount <= 3
        /\ \A i \in 1..(Len(replies) - 1) : Retryable(replies[i])
        /\ pc = "backoff" =>
              /\ Retryable(LastReply)
              /\ retryCount < 3
              /\ Len(replies) = retryCount + 1
              /\ waitTime = (retryCount + 1) * 2000
        /\ (pc = "done" /\ LastReply.kind = "ok" /\ LastReply.shape = "report") =>
              /\ outcome.kind = "return"
              /\ Len(outcome.value) = Len(LastReply.scores)
              /\ \A k \in DOMAIN outcome.value : ~ IsScanError(outcome.value[k])

\* A lookup that failed with 429, then 503, then without response, each
\* followed by a retry, and got a report with a finding at the 4th request.
C24_Witness ==
    /\ LookupDone
    /\ Len(replies) = 4
    /\ Is429(replies[1])
    /\ replies[2].kind = "status" /\ replies[2].status >= 500
    /\ replies[3].kind = "noResponse"
    /\ LastReply.kind = "ok" /\ LastReply.shape = "report"
    /\ requests = 4
    /\ Len(outcome.value) = 1
    /\ ~ IsScanError(outcome.value[1])

\* Oracle requests sent by the current lookup and not yet settled.
InFlight ==
    requests - Cardinality({ i \in DOMAIN replies : replies[i].kind # "setup" })

\* A step in which a lookup starts, and one in which a lookup ends.
LookupStarts == pc' = "call" /\ pc \notin { "call", "backoff" }

LookupEnds == pc \in { "call", "oracle" } /\ pc' \notin { "call", "oracle", "backoff" }

\* C25: within one scan invocation files and dependencies are processed
\* one after the other: at most one oracle request is in flight at any
\* time, and between the end of one dependency's lookup and the start of
\* the next, within a file and across consecutive files, a fixed delay of
\* at least 500 ms elapses.
C25_Sequential ==
    /\ [](/\ InFlight \in { 0, 1 }
          /\ InFlight = 1 <=> pc = "oracle"
          /\ pc = "delay500" => waitTime >= 500)
    /\ [][/\ LookupEnds => pc' = "delay500"
          /\ LookupStarts => pc \in { "scan", "delay500" }
          /\ pc = "delay500" => waitTime' = 0 /\ depIdx' = depIdx + 1]_vars

\* The first lookup of a second manifest is in flight after a lookup of the
\* first manifest.
C25_Witness ==
    /\ entry = "handler"
    /\ fileIdx = 2
    /\ pc = "oracle"
    /\ Len(fileFindings) = 1
    /\ calls.oracle >= 2
    /\ InFlight = 1

\* An operator as written, without the blanks around it.
Unspaced(prefix) == SelectSeq(prefix, LAMBDA c : c # " ")

\* The lines of a requirements.txt that have a package name followed by one
\* of the operators ==, >=, <=, ~=, !=, >, < and a version.
VersionedLines(lines) ==
    SelectSeq(lines, LAMBDA line : /\ IsNameToken(line.packageName)
                                   /\ Unspaced(line.prefix) \in ScanOperators
                                   /\ line.version # << >>)

\* C26: scanning a requirements.txt issues exactly one oracle lookup, with
\* ecosystem 'pypi', for each non-blank, non-comment line that has a package
\* name followed by one of the operators ==, >=, <=, ~=, !=, >, < and a
\* version, in line order, and no lookup for a bare package name, a comment
\* line or a blank line.
C26_RequirementsLookups ==
    (entry = "scanDependencies" /\ CurrentFile.name = "requirements.txt") =>
        LET expected == VersionedLines(CurrentFile.deps)
        IN  /\ pc \in { "call", "oracle", "backoff", "delay500" } =>
                  /\ depIdx <= Len(expected)
                  /\ call = [ packageName |-> expected[depIdx].packageName,
                              version     |-> expected[depIdx].version,
                              ecosystem   |-> "pypi" ]
            /\ pc \in { "scanned", "done" } => depIdx = Len(expected) + 1

\* C27: failures are contained per dependency: the findings already
\* obtained for earlier dependencies of a manifest stay in that file's
\* result whatever happens while a later dependency of the same manifest is
\* processed (a failed lookup, or an entry whose version value cannot be
\* normalized, such as a non-string value in package.json).
C27_FindingsRetained ==
    [][(entry = "scanDependencies" /\ pc # "scan") =>
           \A k \in DOMAIN vulnerabilities :
               Occurs(vulnerabilities[k], vulnerabilities')]_vars

\* The entries of a manifest whose recommendation carries the placeholder.
PlaceholderFor(d, recs) ==
    \E i \in DOMAIN recs :
        recs[i].packageName = d.packageName /\ recs[i].secureVersion = V_latest

\* C28: when the registry lookup of a dependency fails, so that its
\* recommendation carries the placeholder secureVersion 'latest', the
\* rewritten manifest keeps the version the dependency declared:
\* updatedContent never has '^latest' in package.json or 'pkg==latest' in
\* requirements.txt.
C28_PlaceholderNotWritten ==
    (entry = "secureUpdate" /\ outcome # NoOutcome) =>
        LET first == outcome.value[1]
        IN  \A j \in DOMAIN first.content.deps :
                PlaceholderFor(first.content.deps[j], first.secureVersions) =>
                    /\ first.updatedContent.deps[j] = first.content.deps[j]
                    /\ first.updatedContent.deps[j].version # V_latest

\* C29: for every package.json dependency the version string scanPackageJson
\* sends to the vulnerability oracle equals the currentVersion
\* fetchSecureDependencies uses for the upgrade decision, for every declared
\* version expression (bare, '^', '~', '>=', pre-release suffixes).
C29_SameDeclaredVersion ==
    (/\ entry = "secureUpdate"
     /\ outcome # NoOutcome
     /\ outcome.value[1].content.name = "package.json") =>
        LET first == outcome.value[1]
        IN  \A i \in DOMAIN first.secureVersions :
                first.secureVersions[i].currentVersion =
                    LookupVersion(first.content, ScanDeps(first.content)[i])

\* C30: in the /scan handler the malware scan of a file completes before
\* any AI review, oracle lookup or registry lookup for that file; once a
\* malware scan reports malicious > 0 the request ends with 403, no later
\* file is processed and no results gathered for earlier files are
\* returned; a malware scan that itself fails (returns null) is treated as
\* clean and never causes a 403 or aborts the scan.
C30_MalwareFirst ==
    /\ [](entry = "handler" =>
            /\ calls.malware = fileIdx
            /\ pc = "malware" =>
                   /\ calls.ai = fileIdx - 1
                   /\ Len(fileFindings) = fileIdx - 1
                   /\ Len(results) = fileIdx - 1
            /\ MalwareBlocked =>
                   /\ pc = "done"
                   /\ malwareResult.settled = "stats" /\ malwareResult.malicious > 0
                   /\ calls.ai = fileIdx - 1
                   /\ DOMAIN outcome.body = { "error", "details" })
    /\ [][(entry = "handler" /\ pc = "malware") =>
              /\ calls'.oracle = calls.oracle
              /\ calls'.registry = calls.registry
              /\ IF malwareResult'.settled = "stats" /\ malwareResult'.malicious > 0
                 THEN MalwareBlocked' /\ calls' = calls /\ fileIdx' = fileIdx
                 ELSE pc' = "ai" /\ outcome' = outcome /\ calls'.ai = calls.ai + 1]_vars

\* The malware scan of the second file blocks the request after the first
\* file was scanned through.
C30_Witness ==
    /\ entry = "handler"
    /\ MalwareBlocked
    /\ fileIdx = 2
    /\ Len(results) = 1
    /\ Len(dependencyFiles) > 1

====
